---- MODULE Spec2Model ----
(***************************************************************************)
(* Model of the ComplexPlot math engine: src/src/math/parser.ts and the    *)
(* evaluator and generators of src/src/math/evaluator.ts.                  *)
(*                                                                         *)
(* JavaScript numbers are modelled as fixed-point values: a finite number  *)
(* is an integer count of 1/Unit, and NaN, +Infinity and -Infinity are     *)
(* separate values.  A finite result whose magnitude exceeds MaxValue      *)
(* overflows to an infinity, as IEEE-754 doubles do beyond                 *)
(* Number.MAX_VALUE.  The model has no negative zero.                      *)
(*                                                                         *)
(* mathjs is a dependency, not part of the repository: parse/compile is    *)
(* modelled by the outcome the call sites observe (a node, or a thrown     *)
(* SyntaxError), and a compiled expression by the value its evaluate()     *)
(* returns or the error it throws for each binding of the free variable.   *)
(***************************************************************************)
EXTENDS Integers, Sequences, FiniteSets, TLC

\* ------------------------------------------------------------------------
\* Bounds of the model
\* ------------------------------------------------------------------------
Unit == 1000          \* fixed-point resolution: the number 1.0 is Unit
MaxValue == 4000      \* largest finite magnitude (stands for Number.MAX_VALUE)
MaxResolution == 3    \* largest grid side length drawn
MaxTSteps == 3        \* largest contour sample count drawn
MaxContours == 2      \* longest contour list drawn
MaxTextLen == 2       \* longest expression text drawn

\* ------------------------------------------------------------------------
\* JavaScript numbers
\* ------------------------------------------------------------------------
NaN == [c |-> "nan", v |-> 0]
PInf == [c |-> "inf", v |-> 1]
NInf == [c |-> "inf", v |-> -1]
Fin(n) == [c |-> "fin", v |-> n]
\* the value `undefined` of a missing property (typeof is not 'number')
Absent == [c |-> "absent", v |-> 0]

isFinite(x) == x.c = "fin"

Sign(n) == IF n < 0 THEN -1 ELSE 1
Abs(n) == IF n < 0 THEN -n ELSE n
\* rounding of an exact result to the nearest representable value
RoundDiv(n, d) == (2 * n + d) \div (2 * d)
\* overflow of a finite result to an infinity
Norm(n) == IF n > MaxValue THEN PInf ELSE IF n < -MaxValue THEN NInf ELSE Fin(n)

Neg(a) == IF a.c = "nan" THEN NaN ELSE [c |-> a.c, v |-> -a.v]

Add(a, b) ==
  IF a.c = "nan" \/ b.c = "nan" THEN NaN
  ELSE IF a.c = "inf" /\ b.c = "inf" THEN (IF a.v = b.v THEN a ELSE NaN)
  ELSE IF a.c = "inf" THEN a
  ELSE IF b.c = "inf" THEN b
  ELSE Norm(a.v + b.v)

Sub(a, b) == Add(a, Neg(b))

Mul(a, b) ==
  IF a.c = "nan" \/ b.c = "nan" THEN NaN
  ELSE IF a.c = "inf" \/ b.c = "inf"
       THEN (IF a.v = 0 \/ b.v = 0 THEN NaN
             ELSE IF Sign(a.v) = Sign(b.v) THEN PInf ELSE NInf)
  ELSE Norm(Sign(a.v) * Sign(b.v) * RoundDiv(Abs(a.v) * Abs(b.v), Unit))

Div(a, b) ==
  IF a.c = "nan" \/ b.c = "nan" THEN NaN
  ELSE IF a.c = "inf" /\ b.c = "inf" THEN NaN
  ELSE IF a.c = "inf" THEN (IF Sign(a.v) = Sign(b.v) THEN PInf ELSE NInf)
  ELSE IF b.c = "inf" THEN Fin(0)
  ELSE IF b.v = 0 THEN (IF a.v = 0 THEN NaN ELSE IF a.v > 0 THEN PInf ELSE NInf)
  ELSE Norm(Sign(a.v) * Sign(b.v) * RoundDiv(Abs(a.v) * Unit, Abs(b.v)))

RECURSIVE ISqrt(_, _, _)
\* largest r in lo..hi with r * r <= n
ISqrt(n, lo, hi) ==
  IF lo >= hi THEN lo
  ELSE LET mid == (lo + hi + 1) \div 2
       IN IF mid <= n \div mid THEN ISqrt(n, mid, hi) ELSE ISqrt(n, lo, mid - 1)

\* Math.sqrt
Sqrt(a) ==
  IF a.c = "nan" THEN NaN
  ELSE IF a.c = "inf" THEN (IF a.v > 0 THEN PInf ELSE NaN)
  ELSE IF a.v < 0 THEN NaN
  ELSE Fin(ISqrt(a.v * Unit, 0, a.v * Unit))

Pi == (3142 * Unit) \div 1000
Euler == (2718 * Unit) \div 1000

\* arctangent of q/Unit for 0 <= q <= Unit: pi/4*a + 0.273*a*(1-a)
AtanUnit(q) == RoundDiv(Pi * q, 4 * Unit) + RoundDiv(273 * q * (Unit - q), 1000 * Unit)

\* Math.atan2(y, x)
Atan2(y, x) ==
  IF y.c = "nan" \/ x.c = "nan" THEN NaN
  ELSE IF y.c = "inf" /\ x.c = "inf"
       THEN Fin(y.v * (IF x.v > 0 THEN Pi \div 4 ELSE (3 * Pi) \div 4))
  ELSE IF y.c = "inf" THEN Fin(y.v * (Pi \div 2))
  ELSE IF x.c = "inf"
       THEN (IF x.v > 0 THEN Fin(0) ELSE IF y.v < 0 THEN Fin(-Pi) ELSE Fin(Pi))
  ELSE IF x.v = 0 /\ y.v = 0 THEN Fin(0)
  ELSE LET ax == Abs(x.v)
           ay == Abs(y.v)
           lo == IF ax < ay THEN ax ELSE ay
           hi == IF ax < ay THEN ay ELSE ax
           a0 == AtanUnit(RoundDiv(lo * Unit, hi))
           a1 == IF ay > ax THEN Pi \div 2 - a0 ELSE a0
           a2 == IF x.v < 0 THEN Pi - a1 ELSE a1
       IN Fin(IF y.v < 0 THEN -a2 ELSE a2)

\* ------------------------------------------------------------------------
\* Values of mathjs evaluate() and of the evaluator's conversions
\* ------------------------------------------------------------------------
\* what compiled.evaluate(scope) produces: it throws, or it returns null or
\* undefined, a number, or an object whose re and im properties are numbers
\* (a mathjs Complex) or are missing (a Matrix, a function, a boolean, ...)
Thrown == [kind |-> "throw", re |-> Absent, im |-> Absent]
Nullish == [kind |-> "null", re |-> Absent, im |-> Absent]
Number(x) == [kind |-> "number", re |-> x, im |-> Absent]
Object(re, im) == [kind |-> "object", re |-> re, im |-> im]

ComplexPoint(re, im) == [re |-> re, im |-> im]
\* the outcome of a call that may throw
Return(v) == [thrown |-> FALSE, val |-> v]
Throw == [thrown |-> TRUE, val |-> ComplexPoint(NaN, NaN)]

toMathComplex(point) == Object(point.re, point.im)

toComplexPoint(c) ==
  IF c.kind = "number" THEN Return(ComplexPoint(c.re, Fin(0)))
  ELSE IF c.kind = "null" THEN Throw   \* TypeError: property read of null
  ELSE Return(ComplexPoint(IF c.re.c = "absent" THEN Fin(0) ELSE c.re,
                           IF c.im.c = "absent" THEN Fin(0) ELSE c.im))

modulus(point) == Sqrt(Add(Mul(point.re, point.re), Mul(point.im, point.im)))

argument(point) == Atan2(point.im, point.re)

getColorValue(point, colorBy) ==
  CASE colorBy = "modulus" -> modulus(point)
    [] colorBy = "argument" -> argument(point)
    [] colorBy = "real" -> point.re
    [] colorBy = "imaginary" -> point.im
    [] OTHER -> modulus(point)

ColorMapping == {"modulus", "argument", "real", "imaginary"}

\* ------------------------------------------------------------------------
\* Expressions
\* ------------------------------------------------------------------------
\* An expression is its text (a sequence of characters) and what mathjs
\* makes of it.  At a binding of its variable the compiled expression fn
\* yields fn.holes[binding] when the binding is in DOMAIN fn.holes, and
\* otherwise the bound value itself (fn.base = "arg", as for the text "z")
\* or the fixed outcome fn.value (fn.base = "const").
Chars == {" ", "z", "+"}
Whitespace == {" "}

RECURSIVE trimStart(_)
trimStart(s) ==
  IF s # <<>> /\ Head(s) \in Whitespace THEN trimStart(Tail(s)) ELSE s

RECURSIVE trimEnd(_)
trimEnd(s) ==
  IF s # <<>> /\ s[Len(s)] \in Whitespace THEN trimEnd(SubSeq(s, 1, Len(s) - 1)) ELSE s

\* String.prototype.trim
trim(s) == trimEnd(trimStart(s))

\* mathjs parse(text): over the alphabet Chars a text is rejected exactly
\* when its last token is the operator "+"; the empty expression parses
\* (to a constant node holding undefined)
SyntaxError(text) == trim(text) # <<>> /\ trim(text)[Len(trim(text))] = "+"

\* mathjs parse(): a node, or a thrown SyntaxError
parse(expr) ==
  IF SyntaxError(expr.text) THEN [thrown |-> TRUE, val |-> <<>>]
  ELSE [thrown |-> FALSE, val |-> expr.text]

\* mathjs compile(): an EvalFunction, or a thrown SyntaxError
compile(expr) ==
  IF SyntaxError(expr.text) THEN [thrown |-> TRUE, val |-> expr.fn]
  ELSE [thrown |-> FALSE, val |-> expr.fn]

mathConstants ==
  [i |-> Object(Fin(0), Fin(Unit)), pi |-> Number(Fin(Pi)), e |-> Number(Fin(Euler))]

\* the scope { <name>: value, ...mathConstants }
Scope(name, value) == [name |-> name, value |-> value, constants |-> mathConstants]

\* the scope { [variable]: value } of evaluateAt
NoConstants == [n \in {} |-> Thrown]
VariableScope(name, value) == [name |-> name, value |-> value, constants |-> NoConstants]

\* the i, pi and e of mathjs itself, which mathConstants imports
Builtins == mathConstants

\* a symbol lookup that gives every unknown symbol the bound value
lookupBindsUnknown(scope, symbol) ==
  IF symbol \in DOMAIN scope.constants THEN scope.constants[symbol]
  ELSE IF symbol \in DOMAIN Builtins THEN Builtins[symbol]
  ELSE scope.value

\* mathjs SymbolNode: the scope's own key first (in the object literal the
\* spread constants overwrite a variable of the same name), then the
\* mathjs namespace, else "Undefined symbol" is thrown
lookup(scope, symbol) ==
  IF symbol \in DOMAIN scope.constants THEN scope.constants[symbol]
  ELSE IF symbol = scope.name THEN scope.value
  ELSE IF symbol \in DOMAIN Builtins THEN Builtins[symbol]
  ELSE Thrown

\* mathjs add(a, b) of numbers and Complex values
addValues(a, b) ==
  IF a.kind = "throw" \/ b.kind = "throw" THEN Thrown
  ELSE IF a.kind = "number" /\ b.kind = "number" THEN Number(Add(a.re, b.re))
  ELSE Object(Add(a.re, b.re),
              Add(IF a.kind = "number" THEN Fin(0) ELSE a.im,
                  IF b.kind = "number" THEN Fin(0) ELSE b.im))

RECURSIVE evaluateSymbols(_, _)
\* the value of the sum symbols[1] + symbols[2] + ... in the scope
evaluateSymbols(symbols, scope) ==
  IF Len(symbols) = 1 THEN lookup(scope, symbols[1])
  ELSE addValues(evaluateSymbols(SubSeq(symbols, 1, Len(symbols) - 1), scope),
                 lookup(scope, symbols[Len(symbols)]))

\* compiled.evaluate(scope)
evaluate(compiled, scope) ==
  IF scope.value \in DOMAIN compiled.holes THEN compiled.holes[scope.value]
  ELSE IF compiled.base = "arg" THEN scope.value
  ELSE IF compiled.base = "symbols" THEN evaluateSymbols(compiled.symbols, scope)
  ELSE compiled.value

\* ------------------------------------------------------------------------
\* Grid generators
\* ------------------------------------------------------------------------
Max(a, b) == IF a > b THEN a ELSE b
\* an integer count as a number
Count(n) == Fin(n * Unit)

\* !expression || expression.trim() === ''
isBlank(text) == text = <<>> \/ trim(text) = <<>>

\* a step that divides the range into n parts, leaving the upper bound out
stepSizeExclusive(min, max, n) == Div(Sub(max, min), Count(Max(n, 1)))

\* (max - min) / Math.max(n - 1, 1)
stepSize(min, max, n) == Div(Sub(max, min), Count(Max(n - 1, 1)))
\* min + k * d
sampleAt(min, k, d) == Add(min, Mul(Count(k), d))

\* domainCell with a catch block that pushes nothing
domainCellSkipsThrown(compiled, colorBy, zInput, rows) ==
  LET result == evaluate(compiled, Scope("z", toMathComplex(zInput)))
      output == toComplexPoint(result)
      value == getColorValue(output.val, colorBy)
  IN IF result.kind = "throw" \/ output.thrown THEN rows
     ELSE IF isFinite(value)
          THEN [row |-> Append(rows.row, value), colorRow |-> Append(rows.colorRow, value)]
          ELSE [row |-> Append(rows.row, NaN), colorRow |-> Append(rows.colorRow, NaN)]

\* domainCell that pushes the value whenever it is not NaN
domainCellKeepsInfinity(compiled, colorBy, zInput, rows) ==
  LET result == evaluate(compiled, Scope("z", toMathComplex(zInput)))
      output == toComplexPoint(result)
      value == getColorValue(output.val, colorBy)
  IN IF result.kind = "throw" \/ output.thrown
     THEN [row |-> Append(rows.row, NaN), colorRow |-> Append(rows.colorRow, NaN)]
     ELSE [row |-> Append(rows.row, value), colorRow |-> Append(rows.colorRow, value)]

\* body of the inner loop of generateDomainColoringData: one cell pushed
\* onto the current row of each grid
domainCell(compiled, colorBy, zInput, rows) ==
  LET result == evaluate(compiled, Scope("z", toMathComplex(zInput)))
      output == toComplexPoint(result)
      value == getColorValue(output.val, colorBy)
  IN IF result.kind = "throw" \/ output.thrown
     THEN [row |-> Append(rows.row, NaN), colorRow |-> Append(rows.colorRow, NaN)]
     ELSE IF isFinite(value)
          THEN [row |-> Append(rows.row, value), colorRow |-> Append(rows.colorRow, value)]
          ELSE [row |-> Append(rows.row, NaN), colorRow |-> Append(rows.colorRow, NaN)]

RECURSIVE domainRow(_, _, _, _, _, _)
\* for (let i = 0; i < resolution; i++)
domainRow(compiled, config, y, dx, i, rows) ==
  IF i >= config.resolution THEN rows
  ELSE domainRow(compiled, config, y, dx, i + 1,
         domainCell(compiled, config.colorBy,
                    ComplexPoint(sampleAt(config.xMin, i, dx), y), rows))

RECURSIVE domainGrid(_, _, _, _, _, _)
\* for (let j = 0; j < resolution; j++)
domainGrid(compiled, config, dx, dy, j, grids) ==
  IF j >= config.resolution THEN grids
  ELSE LET rows == domainRow(compiled, config, sampleAt(config.yMin, j, dy), dx, 0,
                             [row |-> <<>>, colorRow |-> <<>>])
       IN domainGrid(compiled, config, dx, dy, j + 1,
            [z |-> Append(grids.z, rows.row), colors |-> Append(grids.colors, rows.colorRow)])

generateDomainColoringData(config) ==
  IF isBlank(config.expression.text) THEN [z |-> <<>>, colors |-> <<>>]
  ELSE LET compiled == compile(config.expression)
       IN IF compiled.thrown THEN [z |-> <<>>, colors |-> <<>>]
          ELSE domainGrid(compiled.val, config,
                          stepSize(config.xMin, config.xMax, config.resolution),
                          stepSize(config.yMin, config.yMax, config.resolution),
                          0, [z |-> <<>>, colors |-> <<>>])

\* surfaceCell whose catch block also overwrites the cells already in the row
surfaceCellThrowBlanksRow(compiled, heightBy, colorBy, zInput, rows) ==
  LET result == evaluate(compiled, Scope("z", toMathComplex(zInput)))
      output == toComplexPoint(result)
      heightValue == getColorValue(output.val, heightBy)
      colorValue == getColorValue(output.val, colorBy)
  IN IF result.kind = "throw" \/ output.thrown
     THEN [row |-> [k \in 1..(Len(rows.row) + 1) |-> NaN],
           colorRow |-> [k \in 1..(Len(rows.colorRow) + 1) |-> NaN],
           calls |-> rows.calls + 1]
     ELSE [row |-> Append(rows.row, IF isFinite(heightValue) THEN heightValue ELSE NaN),
           colorRow |-> Append(rows.colorRow, IF isFinite(colorValue) THEN colorValue ELSE NaN),
           calls |-> rows.calls + 1]

\* surfaceCell with one evaluation for the height and another for the color
surfaceCellEvaluatesTwice(compiled, heightBy, colorBy, zInput, rows) ==
  LET result == evaluate(compiled, Scope("z", toMathComplex(zInput)))
      output == toComplexPoint(result)
      heightValue == getColorValue(output.val, heightBy)
      colorResult == evaluate(compiled, Scope("z", toMathComplex(zInput)))
      colorValue == getColorValue(toComplexPoint(colorResult).val, colorBy)
  IN IF result.kind = "throw" \/ output.thrown
     THEN [row |-> Append(rows.row, NaN), colorRow |-> Append(rows.colorRow, NaN),
           calls |-> rows.calls + 1]
     ELSE [row |-> Append(rows.row, IF isFinite(heightValue) THEN heightValue ELSE NaN),
           colorRow |-> Append(rows.colorRow, IF isFinite(colorValue) THEN colorValue ELSE NaN),
           calls |-> rows.calls + 2]

\* body of the inner loop of generateSurface3DData: one cell pushed onto
\* the current row of each grid; calls counts the calls of evaluate()
surfaceCell(compiled, heightBy, colorBy, zInput, rows) ==
  LET result == evaluate(compiled, Scope("z", toMathComplex(zInput)))
      output == toComplexPoint(result)
      heightValue == getColorValue(output.val, heightBy)
      colorValue == getColorValue(output.val, colorBy)
  IN IF result.kind = "throw" \/ output.thrown
     THEN [row |-> Append(rows.row, NaN), colorRow |-> Append(rows.colorRow, NaN),
           calls |-> rows.calls + 1]
     ELSE [row |-> Append(rows.row, IF isFinite(heightValue) THEN heightValue ELSE NaN),
           colorRow |-> Append(rows.colorRow, IF isFinite(colorValue) THEN colorValue ELSE NaN),
           calls |-> rows.calls + 1]

RECURSIVE axis(_, _, _, _, _)
\* for (let i = 0; i < resolution; i++) x.push(xMin + i * dx)
axis(min, d, n, i, acc) ==
  IF i >= n THEN acc ELSE axis(min, d, n, i + 1, Append(acc, sampleAt(min, i, d)))

RECURSIVE surfaceRow(_, _, _, _, _, _)
surfaceRow(compiled, config, x, yVal, i, rows) ==
  IF i >= config.resolution THEN rows
  ELSE surfaceRow(compiled, config, x, yVal, i + 1,
         surfaceCell(compiled, config.heightBy, config.colorBy,
                     ComplexPoint(x[i + 1], yVal), rows))

RECURSIVE surfaceGrid(_, _, _, _, _, _)
surfaceGrid(compiled, config, x, y, j, grids) ==
  IF j >= config.resolution THEN grids
  ELSE LET rows == surfaceRow(compiled, config, x, y[j + 1], 0,
                              [row |-> <<>>, colorRow |-> <<>>, calls |-> grids.calls])
       IN surfaceGrid(compiled, config, x, y, j + 1,
            [z |-> Append(grids.z, rows.row), colors |-> Append(grids.colors, rows.colorRow),
             calls |-> rows.calls])

generateSurface3DData(config) ==
  IF isBlank(config.expression.text) THEN [x |-> <<>>, y |-> <<>>, z |-> <<>>, colors |-> <<>>]
  ELSE LET compiled == compile(config.expression)
           x == axis(config.xMin, stepSize(config.xMin, config.xMax, config.resolution),
                     config.resolution, 0, <<>>)
           y == axis(config.yMin, stepSize(config.yMin, config.yMax, config.resolution),
                     config.resolution, 0, <<>>)
           grids == surfaceGrid(compiled.val, config, x, y, 0,
                                [z |-> <<>>, colors |-> <<>>, calls |-> 0])
       IN IF compiled.thrown THEN [x |-> <<>>, y |-> <<>>, z |-> <<>>, colors |-> <<>>]
          ELSE [x |-> x, y |-> y, z |-> grids.z, colors |-> grids.colors]

\* the number of calls of compiled.evaluate() made by generateSurface3DData
surfaceEvaluations(config) ==
  IF isBlank(config.expression.text) THEN 0
  ELSE LET compiled == compile(config.expression)
           x == axis(config.xMin, stepSize(config.xMin, config.xMax, config.resolution),
                     config.resolution, 0, <<>>)
           y == axis(config.yMin, stepSize(config.yMin, config.yMax, config.resolution),
                     config.resolution, 0, <<>>)
           grids == surfaceGrid(compiled.val, config, x, y, 0,
                                [z |-> <<>>, colors |-> <<>>, calls |-> 0])
       IN IF compiled.thrown THEN 0 ELSE grids.calls

\* ------------------------------------------------------------------------
\* Contour generator
\* ------------------------------------------------------------------------
isFinitePoint(point) == isFinite(point.re) /\ isFinite(point.im)

\* contourStep that pushes every sample that did not throw
contourStepKeepsAll(compiled, compiledTransform, t, points) ==
  LET gammaResult == evaluate(compiled, Scope("t", Number(t)))
      gamma == toComplexPoint(gammaResult)
      transformed == evaluate(compiledTransform.fn, Scope("z", toMathComplex(gamma.val)))
      point == IF compiledTransform.present THEN toComplexPoint(transformed) ELSE gamma
  IN IF gammaResult.kind = "throw" \/ gamma.thrown THEN points
     ELSE IF compiledTransform.present /\ (transformed.kind = "throw" \/ point.thrown)
          THEN points
     ELSE Append(points, point.val)

\* contourStep without its inner try/catch: a throw discards the points
contourStepFailureEmpties(compiled, compiledTransform, t, points) ==
  LET gammaResult == evaluate(compiled, Scope("t", Number(t)))
      gamma == toComplexPoint(gammaResult)
      transformed == evaluate(compiledTransform.fn, Scope("z", toMathComplex(gamma.val)))
      point == IF compiledTransform.present THEN toComplexPoint(transformed) ELSE gamma
  IN IF gammaResult.kind = "throw" \/ gamma.thrown THEN <<>>
     ELSE IF compiledTransform.present /\ (transformed.kind = "throw" \/ point.thrown)
          THEN <<>>
     ELSE IF isFinite(point.val.re) /\ isFinite(point.val.im) THEN Append(points, point.val)
     ELSE points

\* contourStep that puts each new point in front of the earlier ones
contourStepPrepends(compiled, compiledTransform, t, points) ==
  LET gammaResult == evaluate(compiled, Scope("t", Number(t)))
      gamma == toComplexPoint(gammaResult)
      transformed == evaluate(compiledTransform.fn, Scope("z", toMathComplex(gamma.val)))
      point == IF compiledTransform.present THEN toComplexPoint(transformed) ELSE gamma
  IN IF gammaResult.kind = "throw" \/ gamma.thrown THEN points
     ELSE IF compiledTransform.present /\ (transformed.kind = "throw" \/ point.thrown)
          THEN points
     ELSE IF isFinitePoint(point.val) THEN <<point.val>> \o points
     ELSE points

\* body of the loop of evaluateSingleContour: the sample at parameter t is
\* pushed onto points, or skipped
contourStep(compiled, compiledTransform, t, points) ==
  LET gammaResult == evaluate(compiled, Scope("t", Number(t)))
      gamma == toComplexPoint(gammaResult)
      transformed == evaluate(compiledTransform.fn, Scope("z", toMathComplex(gamma.val)))
      point == IF compiledTransform.present THEN toComplexPoint(transformed) ELSE gamma
  IN IF gammaResult.kind = "throw" \/ gamma.thrown THEN points
     ELSE IF compiledTransform.present /\ (transformed.kind = "throw" \/ point.thrown)
          THEN points
     ELSE IF isFinitePoint(point.val) THEN Append(points, point.val)
     ELSE points

RECURSIVE contourLoopInclusive(_, _, _, _, _, _, _)
\* the loop with the test step <= tSteps
contourLoopInclusive(compiled, compiledTransform, tMin, dt, tSteps, step, points) ==
  IF step > tSteps THEN points
  ELSE contourLoopInclusive(compiled, compiledTransform, tMin, dt, tSteps, step + 1,
         contourStep(compiled, compiledTransform, sampleAt(tMin, step, dt), points))

RECURSIVE contourLoop(_, _, _, _, _, _, _)
\* for (let step = 0; step < tSteps; step++)
contourLoop(compiled, compiledTransform, tMin, dt, tSteps, step, points) ==
  IF step >= tSteps THEN points
  ELSE contourLoop(compiled, compiledTransform, tMin, dt, tSteps, step + 1,
         contourStep(compiled, compiledTransform, sampleAt(tMin, step, dt), points))

\* evaluateSingleContour without its outer try/catch
evaluateSingleContourNoCatch(expression, transformFunction, tMin, tMax, tSteps) ==
  IF isBlank(expression.text) THEN [thrown |-> FALSE, val |-> <<>>]
  ELSE LET compiled == compile(expression)
           hasTransform == ~isBlank(transformFunction.text)
           transform == compile(transformFunction)
       IN IF compiled.thrown \/ (hasTransform /\ transform.thrown)
          THEN [thrown |-> TRUE, val |-> <<>>]
          ELSE [thrown |-> FALSE,
                val |-> contourLoop(compiled.val,
                          [present |-> hasTransform, fn |-> transform.val],
                          tMin, stepSize(tMin, tMax, tSteps), tSteps, 0, <<>>)]

evaluateSingleContour(expression, transformFunction, tMin, tMax, tSteps) ==
  IF isBlank(expression.text) THEN [thrown |-> FALSE, val |-> <<>>]
  ELSE LET compiled == compile(expression)
           hasTransform == ~isBlank(transformFunction.text)
           transform == compile(transformFunction)
       IN IF compiled.thrown \/ (hasTransform /\ transform.thrown)
          THEN [thrown |-> FALSE, val |-> <<>>]
          ELSE [thrown |-> FALSE,
                val |-> contourLoop(compiled.val,
                          [present |-> hasTransform, fn |-> transform.val],
                          tMin, stepSize(tMin, tMax, tSteps), tSteps, 0, <<>>)]

\* the filter without its test of the enabled flag
contourFilterIgnoresEnabled(contour) == trim(contour.expression.text) # <<>>

\* contour => contour.enabled && contour.expression.trim() !== ''
contourFilter(contour) == contour.enabled /\ trim(contour.expression.text) # <<>>

\* contour.transformFunction?.trim() ? `${transformFunction}(${expression})` : expression
displayExpression(contour) ==
  IF trim(contour.transformFunction.text) # <<>>
  THEN contour.transformFunction.text \o <<"(">> \o contour.expression.text \o <<")">>
  ELSE contour.expression.text

\* the object literal of the map callback, around the evaluated points
contourData(contour, points) ==
  [id |-> contour.id,
   expression |-> displayExpression(contour),
   color |-> contour.color,
   tMin |-> contour.tMin,
   tMax |-> contour.tMax,
   animationSpeed |-> contour.animationSpeed,
   points |-> points]

\* contours.filter(...).map(...): an exception of a callback ends the call
generateContourPoints(config) ==
  LET kept == SelectSeq(config.contours, contourFilter)
      calls == [k \in 1..Len(kept) |->
                  evaluateSingleContour(kept[k].expression, kept[k].transformFunction,
                                        kept[k].tMin, kept[k].tMax, kept[k].tSteps)]
  IN IF \E k \in 1..Len(kept) : calls[k].thrown
     THEN [thrown |-> TRUE, val |-> <<>>]
     ELSE [thrown |-> FALSE, val |-> [k \in 1..Len(kept) |-> contourData(kept[k], calls[k].val)]]

\* the contours generateContourPoints hands to evaluateSingleContour, in call order
sampledContours(config) ==
  LET kept == SelectSeq(config.contours, contourFilter)
  IN [k \in 1..Len(kept) |-> kept[k].id]

\* ContourPlot, traces: the parameter values attached to the points of a
\* ContourData for display, tMin + i / (n - 1 || 1) (tMax - tMin)
traceTValues(contour) ==
  LET n == Len(contour.points)
      last == IF n - 1 # 0 THEN n - 1 ELSE 1
  IN [k \in 1..n |->
        Add(contour.tMin,
            Mul(Div(Count(k - 1), Count(last)), Sub(contour.tMax, contour.tMin)))]

\* ------------------------------------------------------------------------
\* Contour integral
\* ------------------------------------------------------------------------
complexMultiply(a, b) ==
  ComplexPoint(Sub(Mul(a.re, b.re), Mul(a.im, b.im)), Add(Mul(a.re, b.im), Mul(a.im, b.re)))

complexAdd(a, b) == ComplexPoint(Add(a.re, b.re), Add(a.im, b.im))

complexScale(a, scalar) == ComplexPoint(Mul(a.re, scalar), Mul(a.im, scalar))

\* a ComplexPoint | null
Null == [isNull |-> TRUE, val |-> ComplexPoint(NaN, NaN)]
NonNull(point) == [isNull |-> FALSE, val |-> point]

\* evalGamma and evalF: the converted value, or null when anything throws
evalGamma(compiledGamma, t) ==
  LET result == evaluate(compiledGamma, Scope("t", Number(t)))
      point == toComplexPoint(result)
  IN IF result.kind = "throw" \/ point.thrown THEN Null ELSE NonNull(point.val)

evalF(compiledF, z) ==
  LET result == evaluate(compiledF, Scope("z", toMathComplex(z)))
      point == toComplexPoint(result)
  IN IF result.kind = "throw" \/ point.thrown THEN Null ELSE NonNull(point.val)

\* value && isFinite(value.re) && isFinite(value.im)
usable(value) == ~value.isNull /\ isFinitePoint(value.val)

\* the derivative step: h = dt * 0.01
derivativeStep(dt) == Mul(dt, Fin(Unit \div 100))

\* gammaPrime without the fallback: no central difference, no estimate
gammaPrimeCentralOnly(compiledGamma, gamma, t, h) ==
  LET gammaPlusH == evalGamma(compiledGamma, Add(t, h))
      gammaMinusH == evalGamma(compiledGamma, Sub(t, h))
      twoH == Mul(Count(2), h)
  IN IF usable(gammaPlusH) /\ usable(gammaMinusH)
     THEN NonNull(ComplexPoint(Div(Sub(gammaPlusH.val.re, gammaMinusH.val.re), twoH),
                               Div(Sub(gammaPlusH.val.im, gammaMinusH.val.im), twoH)))
     ELSE Null

\* the estimate of gamma'(t), or null when the sample is to be skipped
gammaPrime(compiledGamma, gamma, t, h) ==
  LET gammaPlusH == evalGamma(compiledGamma, Add(t, h))
      gammaMinusH == evalGamma(compiledGamma, Sub(t, h))
      gammaNext == evalGamma(compiledGamma, Add(t, h))
      twoH == Mul(Count(2), h)
  IN IF usable(gammaPlusH) /\ usable(gammaMinusH)
     THEN NonNull(ComplexPoint(Div(Sub(gammaPlusH.val.re, gammaMinusH.val.re), twoH),
                               Div(Sub(gammaPlusH.val.im, gammaMinusH.val.im), twoH)))
     ELSE IF usable(gammaNext)
          THEN NonNull(ComplexPoint(Div(Sub(gammaNext.val.re, gamma.re), h),
                                    Div(Sub(gammaNext.val.im, gamma.im), h)))
          ELSE Null

\* integralStep that records the parameter of a sample before it knows
\* whether the sample survives
integralStepRecordsEveryT(compiledGamma, compiledF, t, dt, acc) ==
  LET gamma == evalGamma(compiledGamma, t)
      prime == gammaPrime(compiledGamma, gamma.val, t, derivativeStep(dt))
      fValue == evalF(compiledF, gamma.val)
      integrand == complexMultiply(fValue.val, prime.val)
      currentSum == complexAdd(acc.currentSum, complexScale(integrand, dt))
      seen == [acc EXCEPT !.tValues = Append(acc.tValues, t)]
  IN IF ~usable(gamma) THEN seen
     ELSE IF prime.isNull THEN seen
     ELSE IF ~usable(fValue) THEN seen
     ELSE IF ~isFinitePoint(integrand) THEN seen
     ELSE [tValues |-> Append(acc.tValues, t),
           contourPoints |-> Append(acc.contourPoints, gamma.val),
           integrandVectors |-> Append(acc.integrandVectors, integrand),
           runningSum |-> Append(acc.runningSum, currentSum),
           currentSum |-> currentSum]

\* integralStep that adds the integrand to the sum without the factor dt
integralStepUnscaled(compiledGamma, compiledF, t, dt, acc) ==
  LET gamma == evalGamma(compiledGamma, t)
      prime == gammaPrime(compiledGamma, gamma.val, t, derivativeStep(dt))
      fValue == evalF(compiledF, gamma.val)
      integrand == complexMultiply(fValue.val, prime.val)
      currentSum == complexAdd(acc.currentSum, integrand)
  IN IF ~usable(gamma) THEN acc
     ELSE IF prime.isNull THEN acc
     ELSE IF ~usable(fValue) THEN acc
     ELSE IF ~isFinitePoint(integrand) THEN acc
     ELSE [tValues |-> Append(acc.tValues, t),
           contourPoints |-> Append(acc.contourPoints, gamma.val),
           integrandVectors |-> Append(acc.integrandVectors, integrand),
           runningSum |-> Append(acc.runningSum, currentSum),
           currentSum |-> currentSum]

\* body of the loop of computeContourIntegral: the sample at t is appended
\* to the four sequences and added to the sum, or skipped
integralStep(compiledGamma, compiledF, t, dt, acc) ==
  LET gamma == evalGamma(compiledGamma, t)
      prime == gammaPrime(compiledGamma, gamma.val, t, derivativeStep(dt))
      fValue == evalF(compiledF, gamma.val)
      integrand == complexMultiply(fValue.val, prime.val)
      currentSum == complexAdd(acc.currentSum, complexScale(integrand, dt))
  IN IF ~usable(gamma) THEN acc
     ELSE IF prime.isNull THEN acc
     ELSE IF ~usable(fValue) THEN acc
     ELSE IF ~isFinitePoint(integrand) THEN acc
     ELSE [tValues |-> Append(acc.tValues, t),
           contourPoints |-> Append(acc.contourPoints, gamma.val),
           integrandVectors |-> Append(acc.integrandVectors, integrand),
           runningSum |-> Append(acc.runningSum, currentSum),
           currentSum |-> currentSum]

RECURSIVE integralLoop(_, _, _, _, _, _, _)
\* for (let step = 0; step < tSteps; step++)
integralLoop(compiledGamma, compiledF, tMin, dt, tSteps, step, acc) ==
  IF step >= tSteps THEN acc
  ELSE integralLoop(compiledGamma, compiledF, tMin, dt, tSteps, step + 1,
         integralStep(compiledGamma, compiledF, sampleAt(tMin, step, dt), dt, acc))

\* a default integrand that is the constant 0
Zero == [text |-> <<"0">>, fn |-> [base |-> "const", value |-> Number(Fin(0)),
                                   holes |-> [b \in {} |-> Thrown]]]

\* the expression text "1", which compiles to the constant 1
One == [text |-> <<"1">>, fn |-> [base |-> "const", value |-> Number(Fin(Unit)),
                                  holes |-> [b \in {} |-> Thrown]]]

NoIntegral ==
  [isNull |-> TRUE, id |-> 0, color |-> 0, tValues |-> <<>>, contourPoints |-> <<>>,
   integrandVectors |-> <<>>, runningSum |-> <<>>,
   finalValue |-> ComplexPoint(Fin(0), Fin(0)), expression |-> <<>>,
   transformFunction |-> <<>>]

\* what computeContourIntegral returns after its loop: null when a compile
\* threw or no sample survived, else the four sequences and the sum
integralData(contour, fExpr, thrown, acc) ==
  IF thrown THEN NoIntegral
  ELSE IF Len(acc.tValues) = 0 THEN NoIntegral
  ELSE [isNull |-> FALSE, id |-> contour.id, color |-> contour.color,
        tValues |-> acc.tValues, contourPoints |-> acc.contourPoints,
        integrandVectors |-> acc.integrandVectors, runningSum |-> acc.runningSum,
        finalValue |-> acc.currentSum, expression |-> contour.expression.text,
        transformFunction |-> fExpr.text]

computeContourIntegral(contour) ==
  IF isBlank(contour.expression.text) THEN NoIntegral
  ELSE LET fExpr == IF ~isBlank(contour.transformFunction.text)
                    THEN contour.transformFunction ELSE One
           compiledGamma == compile(contour.expression)
           compiledF == compile(fExpr)
       IN integralData(contour, fExpr, compiledGamma.thrown \/ compiledF.thrown,
            integralLoop(compiledGamma.val, compiledF.val, contour.tMin,
              stepSize(contour.tMin, contour.tMax, contour.tSteps), contour.tSteps, 0,
              [tValues |-> <<>>, contourPoints |-> <<>>, integrandVectors |-> <<>>,
               runningSum |-> <<>>, currentSum |-> ComplexPoint(Fin(0), Fin(0))]))

\* evaluateAt(compiled, point): a ComplexPoint, or null after an exception
evaluateAt(compiled, point) ==
  LET result == evaluate(compiled.compiled, VariableScope(compiled.variable, toMathComplex(point)))
      output == toComplexPoint(result)
  IN IF result.kind = "throw" \/ output.thrown THEN Null ELSE NonNull(output.val)

\* ------------------------------------------------------------------------
\* Parser
\* ------------------------------------------------------------------------
\* a MathNode | null, or an exception that reaches the caller
NoNode == [kind |-> "null", node |-> <<>>]
Node(n) == [kind |-> "node", node |-> n]

\* parseExpression without its try/catch
parseExpressionNoCatch(expr) ==
  IF isBlank(expr.text) THEN NoNode
  ELSE LET node == parse(expr)
       IN IF node.thrown THEN [kind |-> "exception", node |-> <<>>] ELSE Node(node.val)

parseExpression(expr) ==
  IF isBlank(expr.text) THEN NoNode
  ELSE LET node == parse(expr)
       IN IF node.thrown THEN NoNode ELSE Node(node.val)

parseAndCompile(expr, variable) ==
  IF isBlank(expr.text) THEN [kind |-> "null", node |-> <<>>, variable |-> variable]
  ELSE LET node == parse(expr)
           compiled == compile(expr)
       IN IF node.thrown \/ compiled.thrown
          THEN [kind |-> "null", node |-> <<>>, variable |-> variable]
          ELSE [kind |-> "parsed", node |-> node.val, variable |-> variable]

isValidExpression(expr) ==
  LET node == parse(expr)
  IN IF node.thrown THEN [kind |-> "boolean", value |-> FALSE]
     ELSE [kind |-> "boolean", value |-> TRUE]

\* ------------------------------------------------------------------------
\* Requests drawn by the model
\* ------------------------------------------------------------------------
Texts == UNION {[1..n -> Chars] : n \in 0..MaxTextLen}

\* outcomes of one evaluation, one of each sort
RawSamples ==
  {Thrown, Nullish,
   Number(Fin(0)), Number(Fin(Unit)), Number(NaN), Number(PInf),
   Object(Fin(0), Fin(Unit)), Object(NaN, NaN), Object(Fin(Unit), PInf),
   Object(Fin(MaxValue), Fin(0)), Object(Absent, Absent)}

NoHoles == [b \in {} |-> Thrown]
Holes(bindings) == {NoHoles} \cup {[b \in {p} |-> r] : p \in bindings, r \in RawSamples}
Identity == [base |-> "arg", value |-> Thrown, holes |-> NoHoles]
Bases == {"arg", "finite", "throws"}
Fn(base, holes) ==
  [base |-> IF base = "arg" THEN "arg" ELSE "const",
   value |-> IF base = "finite" THEN Number(Fin(Unit)) ELSE Thrown,
   holes |-> holes]
Fns(bindings) == {Fn(b, h) : b \in Bases, h \in Holes(bindings)}

Expr(text, fn) == [text |-> text, fn |-> fn]
\* every text with the behaviour of "z", and the text "z" with every behaviour
Expressions(bindings) ==
  {Expr(tx, Identity) : tx \in Texts} \cup {Expr(<<"z">>, f) : f \in Fns(bindings)}

\* expressions that are sums of one or two symbols
Symbols == {"z", "t", "i", "pi", "e", "w"}
SymbolTerms == {<<a>> : a \in Symbols} \cup {<<a, b>> : a \in {"i", "pi"}, b \in Symbols}
SymbolFn(symbols) ==
  [base |-> "symbols", value |-> Thrown, holes |-> NoHoles, symbols |-> symbols]
SymbolExpressions == {Expr(<<"z">>, SymbolFn(s)) : s \in SymbolTerms}
\* the variable names and points handed to evaluateAt
VariableNames == {"z", "t", "i", "e"}
Points == {ComplexPoint(Fin(0), Fin(0)), ComplexPoint(Fin(Unit), Fin(Unit)), ComplexPoint(NaN, PInf)}

Ranges == {<<Fin(0), Fin(Unit)>>, <<Fin(0), Fin(0)>>, <<Fin(Unit), Fin(0)>>,
           <<Fin(0), Fin(Unit \div 8)>>}
Regions == {<<<<Fin(0), Fin(Unit)>>, <<Fin(0), Fin(Unit)>>>>,
            <<<<Fin(0), Fin(0)>>, <<Fin(0), Fin(Unit)>>>>,
            <<<<Fin(Unit), Fin(0)>>, <<Fin(0), Fin(0)>>>>,
            <<<<Fin(0), Fin(Unit \div 8)>>, <<Fin(0), Fin(Unit \div 8)>>>>}
GridBindings == {Object(x, y) : x \in {Fin(0), Fin(Unit)}, y \in {Fin(0), Fin(Unit)}}

DomainColoringConfigs ==
  {[expression |-> e, xMin |-> r[1][1], xMax |-> r[1][2], yMin |-> r[2][1], yMax |-> r[2][2],
    resolution |-> n, colorBy |-> c] :
     e \in Expressions(GridBindings) \cup SymbolExpressions, r \in Regions,
     n \in 0..MaxResolution, c \in ColorMapping}

ProjectionPairs ==
  {<<"modulus", "argument">>, <<"real", "imaginary">>, <<"argument", "real">>,
   <<"imaginary", "imaginary">>}

Surface3DConfigs ==
  {[expression |-> e, xMin |-> r[1][1], xMax |-> r[1][2], yMin |-> r[2][1], yMax |-> r[2][2],
    resolution |-> n, heightBy |-> p[1], colorBy |-> p[2]] :
     e \in Expressions(GridBindings), r \in Regions, n \in 0..MaxResolution,
     p \in ProjectionPairs}

\* bindings of t at which a curve may depart from its base: the ends of
\* the parameter range and the shifted points of the derivative estimate
TBindings ==
  {Number(Fin(0)), Number(Fin(Unit)), Number(Fin(Unit \div 100)),
   Number(Fin(-(Unit \div 100))), Number(Fin(Unit + Unit \div 100))}
\* bindings of z at which a transform may depart from its base
ZBindings == {Object(Fin(0), Fin(0)), Object(Fin(Unit), Fin(0))}

NoTransform == Expr(<<>>, Identity)
\* a rich curve with a plain transform, or the curve t with a rich transform
CurvePairs ==
  {<<e, f>> : e \in Expressions(TBindings),
              f \in {NoTransform, Expr(<<" ">>, Identity), Expr(<<"z">>, Identity),
                     Expr(<<"z">>, Fn("throws", NoHoles)), Expr(<<"z", "+">>, Identity)}}
  \cup {<<Expr(<<"z">>, Identity), f>> : f \in Expressions(ZBindings)}
  \cup {<<e, NoTransform>> : e \in SymbolExpressions}

Entry(id, pair, enabled, range, tSteps) ==
  [id |-> id, expression |-> pair[1], transformFunction |-> pair[2], color |-> id,
   enabled |-> enabled, tMin |-> range[1], tMax |-> range[2], tSteps |-> tSteps,
   animationSpeed |-> 5]

ContourEntries ==
  {Entry(1, p, TRUE, r, n) : p \in CurvePairs, r \in Ranges, n \in -1..MaxTSteps}

\* entries of the longer contour lists: enabled or not, blank or not
ListTexts == {<<>>, <<" ">>, <<"z">>, <<"z", "+">>}
ListEntries(id) ==
  {Entry(id, <<Expr(tx, Identity), NoTransform>>, en, <<Fin(0), Fin(Unit)>>, 2) :
     tx \in ListTexts, en \in BOOLEAN}
ContourLists ==
  {<<c>> : c \in ContourEntries}
  \cup UNION {{l \in [1..n -> UNION {ListEntries(k) : k \in 1..n}] :
                 \A k \in 1..n : l[k].id = k} : n \in 0..MaxContours}

Requests ==
  {[op |-> "generateDomainColoringData", arg |-> c] : c \in DomainColoringConfigs}
  \cup {[op |-> "generateSurface3DData", arg |-> c] : c \in Surface3DConfigs}
  \cup {[op |-> "generateContourPoints", arg |-> [contours |-> l]] : l \in ContourLists}
  \cup {[op |-> "computeContourIntegral", arg |-> c] : c \in ContourEntries}
  \cup {[op |-> "evaluateAt",
          arg |-> [compiled |-> [compiled |-> SymbolFn(s), variable |-> v], point |-> p]] :
          s \in SymbolTerms, v \in VariableNames, p \in Points}
  \cup {[op |-> o, arg |-> Expr(tx, Identity)] :
          o \in {"parseExpression", "parseAndCompile", "isValidExpression"}, tx \in Texts}

\* ------------------------------------------------------------------------
\* The plot state of usePlotState and the calls of the engine made from it
\* ------------------------------------------------------------------------
PaletteSize == 8      \* CONTOUR_COLORS.length
DefaultTSteps == 2    \* sample count of a new contour (200 in the program)
MaxIds == 3           \* largest value of contourIdCounter reached
MaxQueue == 2         \* most state updates pending before a render

\* the expressions of a new contour: 'exp(i * t)' stands for any text that
\* compiles, '' is the blank text; neither has a transform
DefaultCurve == <<Expr(<<"z">>, Identity), NoTransform>>
BlankCurve == <<Expr(<<>>, Identity), NoTransform>>
\* tMin = 0 and tMax = 2 * Math.PI, scaled to the numbers of the model
DefaultRange == <<Fin(0), Fin(Unit)>>

\* createContourEntry, called when contourIdCounter = counter: the caller
\* stores counter + 1 for the pre-increment ++contourIdCounter
createContourEntry(counter, pair, colorIndex, range, tSteps) ==
  [id |-> counter + 1, expression |-> pair[1], transformFunction |-> pair[2],
   color |-> colorIndex % PaletteSize, enabled |-> TRUE,
   tMin |-> range[1], tMax |-> range[2], tSteps |-> tSteps, animationSpeed |-> 5]

\* the contours of defaultPlotState, created when the module is loaded
defaultContours == <<createContourEntry(0, DefaultCurve, 0, DefaultRange, DefaultTSteps)>>

defaultDomainColoring(colorBy) ==
  [expression |-> Expr(<<"z">>, Identity), xMin |-> Fin(0), xMax |-> Fin(Unit),
   yMin |-> Fin(0), yMax |-> Fin(Unit), resolution |-> 2, colorBy |-> colorBy]

defaultSurface3D(projections) ==
  [expression |-> Expr(<<"z">>, Identity), xMin |-> Fin(0), xMax |-> Fin(Unit),
   yMin |-> Fin(0), yMax |-> Fin(Unit), resolution |-> 2,
   heightBy |-> projections[1], colorBy |-> projections[2]]

\* a pending state update: a new state (setState(value), or the state an
\* updater computed when it was dispatched), or an updater still to be run
\* a Partial<ContourEntry>: the fields it holds, and their values
Partial(fields, id, enabled, expression) ==
  [fields |-> fields, id |-> id, enabled |-> enabled, expression |-> expression,
   tMin |-> Fin(0), tMax |-> Fin(0)]
NoUpdates == Partial({}, 0, FALSE, BlankCurve[1])
\* { tMin: value } or { tMax: value }
RangePartial(field, value) ==
  [Partial({field}, 0, FALSE, BlankCurve[1]) EXCEPT !.tMin = value, !.tMax = value]
Value(list) == [kind |-> "value", contours |-> list, id |-> 0, updates |-> NoUpdates]
Updater(kind, id, updates) == [kind |-> kind, contours |-> <<>>, id |-> id, updates |-> updates]

\* a number | null
NoNumber == [isNull |-> TRUE, val |-> NaN]
SomeNumber(x) == [isNull |-> FALSE, val |-> x]

\* parseNumericInput of ContourInput: the text of a t-range input, with
\* the outcome of compile(trimmed).evaluate({}), as a finite number or null
parseNumericInput(input) ==
  IF trim(input.text) = <<>> THEN NoNumber
  ELSE IF SyntaxError(input.text) \/ input.raw.kind = "throw" THEN NoNumber
  ELSE IF input.raw.kind = "number"
       THEN IF isFinite(input.raw.re) THEN SomeNumber(input.raw.re) ELSE NoNumber
  ELSE IF input.raw.kind = "object" /\ input.raw.re # Absent /\ input.raw.im # Absent
       THEN IF input.raw.im = Fin(0) /\ isFinite(input.raw.re)
            THEN SomeNumber(input.raw.re) ELSE NoNumber
  ELSE NoNumber

\* what the user types into a t-range input
TypedNumbers ==
  {[text |-> <<" ">>, raw |-> Thrown], [text |-> <<"z", "+">>, raw |-> Thrown]}
  \cup {[text |-> <<"z">>, raw |-> r] :
           r \in {Thrown, Nullish, Number(Fin(0)), Number(Fin(Unit)), Number(Fin(2 * Unit)),
                  Number(NaN), Number(PInf), Object(Fin(Unit), Fin(0)),
                  Object(Fin(Unit), Fin(Unit)), Object(Absent, Absent)}}

\* updates that also rewrite the id of the entry
updatesWithId(contour) ==
  {Partial({"enabled"}, 0, ~contour.enabled, BlankCurve[1]),
   Partial({"id"}, 1, FALSE, BlankCurve[1])}

\* the Partial<ContourEntry> objects ContourInput passes to onUpdate for the
\* contour it displays hold one field each, never the id: here the toggle
\* of the enabled flag
uiUpdates(contour) ==
  {Partial({"enabled"}, 0, ~contour.enabled, BlankCurve[1])}

\* the updater of addContour, run on prev when contourIdCounter = counter
addContourUpdater(prev, counter) ==
  LET lastContour == prev[Len(prev)]
      newEntry == IF prev = <<>>
                  THEN createContourEntry(counter, BlankCurve, 0, DefaultRange, DefaultTSteps)
                  ELSE createContourEntry(counter, BlankCurve, Len(prev),
                                          <<lastContour.tMin, lastContour.tMax>>,
                                          lastContour.tSteps)
  IN [contours |-> Append(prev, newEntry), counter |-> counter + 1]

\* prev.contour.contours.filter((c) => c.id !== id)
removeContourUpdater(prev, id) ==
  LET keep(c) == c.id # id
  IN SelectSeq(prev, keep)

\* prev.contour.contours.map((c) => c.id === id ? { ...c, ...updates } : c)
updateContourUpdater(prev, id, updates) ==
  [k \in 1..Len(prev) |->
     IF prev[k].id = id
     THEN [prev[k] EXCEPT
             !.id = IF "id" \in updates.fields THEN updates.id ELSE @,
             !.enabled = IF "enabled" \in updates.fields THEN updates.enabled ELSE @,
             !.expression = IF "expression" \in updates.fields THEN updates.expression ELSE @,
             !.tMin = IF "tMin" \in updates.fields THEN updates.tMin ELSE @,
             !.tMax = IF "tMax" \in updates.fields THEN updates.tMax ELSE @]
     ELSE prev[k]]

\* one pending update applied to the state and the counter
applyUpdate(item, acc) ==
  CASE item.kind = "value" -> [contours |-> item.contours, counter |-> acc.counter]
    [] item.kind = "addContour" -> addContourUpdater(acc.contours, acc.counter)
    [] item.kind = "removeContour" ->
         [contours |-> removeContourUpdater(acc.contours, item.id), counter |-> acc.counter]
    [] item.kind = "updateContour" ->
         [contours |-> updateContourUpdater(acc.contours, item.id, item.updates),
          counter |-> acc.counter]

RECURSIVE flush(_, _)
\* the pending updates applied in the order of their dispatch
flush(pending, acc) ==
  IF pending = <<>> THEN acc ELSE flush(Tail(pending), applyUpdate(Head(pending), acc))

\* a call of the engine, what it returned, and the value contourIdCounter
\* had then
NoCall == [op |-> "none", arg |-> <<>>, result |-> <<>>, counter |-> 0]
Call(op, arg, result, counter) ==
  [op |-> op, arg |-> arg, result |-> result, counter |-> counter]

\* ------------------------------------------------------------------------
\* The animation state of App and the calls of its handlers
\* ------------------------------------------------------------------------
\* showingIntegralId === null
NoId == 0
\* the four animation states of App
AppState(all, ids, showing, progress) ==
  [isAnimatingAll |-> all, animatingContourIds |-> ids, showingIntegralId |-> showing,
   animationProgress |-> progress]

\* a call of a handler whose state updates wait for the render: the
\* handler, the id it was called with, the isAnimatingAll its closure
\* captured at the last render, and the increment of a frame
Event(handler, id, captured, increment) ==
  [handler |-> handler, id |-> id, captured |-> captured, increment |-> increment]

\* toggleAnimationAll that reads the pending isAnimatingAll, not the captured
toggleAnimationAllReadsPending(state, captured) ==
  [state EXCEPT !.isAnimatingAll = ~@,
                !.animatingContourIds = IF ~state.isAnimatingAll THEN {} ELSE @]

\* toggleAnimationAll: setIsAnimatingAll(prev => !prev) and, when the
\* captured isAnimatingAll is false, setAnimatingContourIds(new Set())
toggleAnimationAll(state, captured) ==
  [state EXCEPT !.isAnimatingAll = ~@,
                !.animatingContourIds = IF ~captured THEN {} ELSE @]

\* toggleContourAnimation(id): the id joins or leaves the set, and
\* setIsAnimatingAll(false)
toggleContourAnimation(state, id) ==
  [state EXCEPT !.animatingContourIds = IF id \in @ THEN @ \ {id} ELSE @ \cup {id},
                !.isAnimatingAll = FALSE]

\* the setState calls inside the updater of toggleShowIntegral(id)
startIntegral(state, id) ==
  [state EXCEPT !.animationProgress = Fin(0),
                !.animatingContourIds = {id},
                !.isAnimatingAll = FALSE]

\* handleModeChange, as far as the animation state goes
handleModeChange(state) ==
  [state EXCEPT !.isAnimatingAll = FALSE, !.animatingContourIds = {},
                !.showingIntegralId = NoId]

\* number >= 1 of JavaScript
AtLeastOne(x) == x = PInf \/ (x.c = "fin" /\ x.v >= Unit)

\* the updater of setAnimationProgress in the integral animation frame
advanceProgress(state, increment) ==
  LET next == Add(state.animationProgress, increment)
  IN [state EXCEPT !.animationProgress = IF AtLeastOne(next) THEN Fin(0) ELSE next]

\* one pending handler call applied; the setState calls an updater of
\* toggleShowIntegral makes while it runs in the render are applied after
\* the queue (late)
applyEvent(event, acc) ==
  CASE event.handler = "toggleAnimationAll" ->
         [acc EXCEPT !.state = toggleAnimationAll(@, event.captured)]
    [] event.handler = "toggleContourAnimation" ->
         [acc EXCEPT !.state = toggleContourAnimation(@, event.id)]
    [] event.handler = "toggleShowIntegral" ->
         IF acc.state.showingIntegralId = event.id
         THEN [acc EXCEPT !.state.showingIntegralId = NoId]
         ELSE [acc EXCEPT !.state.showingIntegralId = event.id,
                          !.late = Append(@, event.id)]
    [] event.handler = "integralShown" ->
         [acc EXCEPT !.state = [startIntegral(@, event.id) EXCEPT
                                  !.showingIntegralId = event.id]]
    [] event.handler = "integralHidden" ->
         [acc EXCEPT !.state.showingIntegralId = NoId]
    [] event.handler = "handleModeChange" ->
         [acc EXCEPT !.state = handleModeChange(@)]
    [] event.handler = "animate" ->
         [acc EXCEPT !.state = advanceProgress(@, event.increment)]

RECURSIVE applyLate(_, _)
applyLate(late, state) ==
  IF late = <<>> THEN state ELSE applyLate(Tail(late), startIntegral(state, Head(late)))

RECURSIVE runEvents(_, _)
\* the pending handler calls applied in the order of their dispatch
runEvents(pending, acc) ==
  IF pending = <<>> THEN acc ELSE runEvents(Tail(pending), applyEvent(Head(pending), acc))

\* the animation state of the render that handles the pending calls
flushEvents(pending, acc) ==
  LET done == runEvents(pending, acc) IN applyLate(done.late, done.state)

\* the render hands ContourPlot a new Set of animating ids
makesNewSet(pending, acc) ==
  \/ runEvents(pending, acc).late # <<>>
  \/ \E k \in 1..Len(pending) :
       \/ pending[k].handler \in {"toggleContourAnimation", "handleModeChange",
                                  "integralShown"}
       \/ pending[k].handler = "toggleAnimationAll" /\ ~pending[k].captured

\* progressMapRef of ContourPlot without an entry
NoProgress == [id \in {} |-> Fin(0)]

\* the order of two numbers neither of which is NaN
Key(x) == IF x.c = "inf" THEN x.v * (MaxValue + 1) ELSE x.v
\* a >= b of JavaScript
GreaterEq(a, b) == a.c # "nan" /\ b.c # "nan" /\ Key(a) >= Key(b)
\* Math.floor
floor(x) == IF x.c = "fin" THEN Fin((x.v \div Unit) * Unit) ELSE x
\* Math.min and Math.max of two numbers
mathMin(a, b) == IF a.c = "nan" \/ b.c = "nan" THEN NaN ELSE IF Key(a) <= Key(b) THEN a ELSE b
mathMax(a, b) == IF a.c = "nan" \/ b.c = "nan" THEN NaN ELSE IF Key(a) >= Key(b) THEN a ELSE b

\* 0.02 * speed
tIncrement(speed) == Mul(Fin(Unit \div 50), Count(speed))

\* tracerInfo of ContourPlot: the contours with more than one point
tracerInfo(data) == SelectSeq(data, LAMBDA contour : Len(contour.points) > 1)

\* Math.max(0, pointIndex)
tracerIndex(pointIndex) == mathMax(Fin(0), pointIndex)

\* one tracer in one frame of ContourPlot: its current t and the index of
\* the point it is drawn at
tracerStep(info, all, ids, map) ==
  LET isThisAnimating == all \/ info.id \in ids
      tRange == Sub(info.tMax, info.tMin)
      start == IF info.id \in DOMAIN map THEN map[info.id] ELSE info.tMin
      moved == Add(start, tIncrement(info.animationSpeed))
      currentT == IF ~isThisAnimating THEN start
                  ELSE IF GreaterEq(moved, info.tMax)
                       THEN Add(info.tMin, Sub(moved, info.tMax))
                       ELSE moved
      normalizedT == Div(Sub(currentT, info.tMin), tRange)
      pointIndex == mathMin(floor(Mul(normalizedT, Count(Len(info.points) - 1))),
                            Count(Len(info.points) - 1))
  IN [animating |-> isThisAnimating, currentT |-> currentT, index |-> tracerIndex(pointIndex)]

\* currentIndex of IntegralVisualization
currentIndex(progress, length) ==
  IF length = 0 THEN Fin(0)
  ELSE mathMin(floor(Mul(progress, Count(length - 1))), Count(length - 1))

\* ------------------------------------------------------------------------
\* The engine as a state machine: one request, served by one call
\* ------------------------------------------------------------------------
VARIABLES
  pc,       \* "call" before the request is served, "done" after
  req,      \* the request: the exported function and its argument
  res,      \* the value the call returned
  sampled,  \* ids of the contours handed to evaluateSingleContour
  evaluations,  \* calls of evaluate() made by generateSurface3DData
  contours,          \* state.contour.contours as last rendered
  contourIdCounter,  \* the module-level counter of usePlotState.ts
  queue,             \* state updates dispatched and not yet rendered
  remembered,        \* an earlier call of the engine, kept for comparison
  isAnimatingAll,       \* App: "animate all" is on
  animatingContourIds,  \* App: ids of the contours animated one by one
  showingIntegralId,    \* App: id of the contour whose integral is shown, or NoId
  animationProgress,    \* App: progress of the integral animation
  events,               \* calls of App's handlers not yet rendered
  progressMap,          \* ContourPlot: progressMapRef, the current t per id
  picked                \* ContourPlot: the point index of each tracer in the last frame

engine == <<pc, req, res, sampled, evaluations>>
plot == <<contours, contourIdCounter, queue, remembered>>
animation == <<isAnimatingAll, animatingContourIds, showingIntegralId, animationProgress,
               events, progressMap, picked>>
vars == <<pc, req, res, sampled, evaluations, contours, contourIdCounter, queue, remembered,
          isAnimatingAll, animatingContourIds, showingIntegralId, animationProgress,
          events, progressMap, picked>>

\* App as mounted: nothing animates and no integral is shown
AppMounted ==
  /\ isAnimatingAll = FALSE
  /\ animatingContourIds = {}
  /\ showingIntegralId = NoId
  /\ animationProgress = Fin(0)
  /\ events = <<>>
  /\ progressMap = NoProgress
  /\ picked = NoProgress

\* usePlotState.ts as loaded: the default contour has taken the first id
PlotLoaded ==
  /\ contours = defaultContours
  /\ contourIdCounter = 1
  /\ queue = <<>>
  /\ remembered = NoCall

Init ==
  /\ pc = "call"
  /\ req \in Requests
  /\ res = <<>>
  /\ sampled = <<>>
  /\ evaluations = 0
  /\ PlotLoaded
  /\ AppMounted

Serve(op, result) ==
  /\ pc = "call"
  /\ req.op = op
  /\ pc' = "done"
  /\ res' = result
  /\ UNCHANGED <<req, plot, animation>>

GenerateDomainColoringData ==
  /\ Serve("generateDomainColoringData", generateDomainColoringData(req.arg))
  /\ UNCHANGED <<sampled, evaluations>>

GenerateSurface3DData ==
  /\ Serve("generateSurface3DData", generateSurface3DData(req.arg))
  /\ evaluations' = surfaceEvaluations(req.arg)
  /\ UNCHANGED sampled

GenerateContourPoints ==
  /\ Serve("generateContourPoints", generateContourPoints(req.arg))
  /\ sampled' = sampledContours(req.arg)
  /\ UNCHANGED evaluations

ComputeContourIntegral ==
  /\ Serve("computeContourIntegral", computeContourIntegral(req.arg))
  /\ UNCHANGED <<sampled, evaluations>>

EvaluateAt ==
  /\ Serve("evaluateAt", evaluateAt(req.arg.compiled, req.arg.point))
  /\ UNCHANGED <<sampled, evaluations>>

ParseExpression ==
  /\ Serve("parseExpression", parseExpression(req.arg))
  /\ UNCHANGED <<sampled, evaluations>>

ParseAndCompile ==
  /\ Serve("parseAndCompile", parseAndCompile(req.arg, "z"))
  /\ UNCHANGED <<sampled, evaluations>>

IsValidExpression ==
  /\ Serve("isValidExpression", isValidExpression(req.arg))
  /\ UNCHANGED <<sampled, evaluations>>

Next ==
  \/ GenerateDomainColoringData
  \/ GenerateSurface3DData
  \/ GenerateContourPoints
  \/ ComputeContourIntegral
  \/ EvaluateAt
  \/ ParseExpression
  \/ ParseAndCompile
  \/ IsValidExpression

Spec == Init /\ [][Next]_vars

\* ------------------------------------------------------------------------
\* The application as a state machine: handlers dispatch state updates,
\* a render applies them in order and calls the engine
\* ------------------------------------------------------------------------
PlotInit ==
  /\ pc = "idle"
  /\ req = [op |-> "none", arg |-> <<>>]
  /\ res = <<>>
  /\ sampled = <<>>
  /\ evaluations = 0
  /\ PlotLoaded
  /\ AppMounted

\* setState(item), dispatched while contourIdCounter becomes `counter`
Dispatch(item, counter) ==
  LET after == flush(Append(queue, item), [contours |-> contours, counter |-> counter])
  IN /\ pc = "idle"
     /\ Len(queue) + Len(events) < MaxQueue
     /\ Len(after.contours) <= MaxContours
     /\ after.counter <= MaxIds
     /\ queue' = Append(queue, item)
     /\ contourIdCounter' = counter
     /\ UNCHANGED <<contours, remembered, engine, animation>>

\* addContour: the updater runs at the next render, or, when nothing else
\* is pending, possibly at once on the rendered state
AddContour ==
  \/ Dispatch(Updater("addContour", 0, NoUpdates), contourIdCounter)
  \/ /\ queue = <<>>
     /\ LET eager == addContourUpdater(contours, contourIdCounter)
        IN Dispatch(Value(eager.contours), eager.counter)

\* removeContour(contour.id) of a displayed contour
RemoveContour ==
  \E k \in 1..Len(contours) :
    Dispatch(Updater("removeContour", contours[k].id, NoUpdates), contourIdCounter)

\* updateContour(contour.id, updates) of a displayed contour
UpdateContour ==
  \E k \in 1..Len(contours) : \E updates \in uiUpdates(contours[k]) :
    Dispatch(Updater("updateContour", contours[k].id, updates), contourIdCounter)

\* resetToDefaults: the counter restarts and the new state is built at once
ResetToDefaults ==
  Dispatch(Value(<<createContourEntry(0, DefaultCurve, 0, DefaultRange, DefaultTSteps)>>), 1)

\* a render whose contour data are numbered from the module's counter
RenderNumbersFromCounter ==
  LET after == flush(queue, [contours |-> contours, counter |-> contourIdCounter])
      config == [contours |-> after.contours]
      data == generateContourPoints(config)
      app == flushEvents(events, [state |-> AppState(isAnimatingAll, animatingContourIds,
                                                     showingIntegralId, animationProgress),
                                  late |-> <<>>])
      numbered == [thrown |-> data.thrown,
                   val |-> [k \in 1..Len(data.val) |->
                              [data.val[k] EXCEPT !.id = after.counter + k]]]
  IN /\ pc = "idle"
     /\ contours' = after.contours
     /\ contourIdCounter' = after.counter
     /\ queue' = <<>>
     /\ req' = [op |-> "generateContourPoints", arg |-> config]
     /\ res' = numbered
     /\ sampled' = sampledContours(config)
     /\ isAnimatingAll' = app.isAnimatingAll
     /\ animatingContourIds' = app.animatingContourIds
     /\ showingIntegralId' = app.showingIntegralId
     /\ animationProgress' = app.animationProgress
     /\ events' = <<>>
     /\ progressMap' = IF \/ queue # <<>>
                           \/ app.isAnimatingAll # isAnimatingAll
                           \/ makesNewSet(events, [state |-> AppState(isAnimatingAll,
                                  animatingContourIds, showingIntegralId, animationProgress),
                                  late |-> <<>>])
                        THEN NoProgress ELSE progressMap
     /\ UNCHANGED <<pc, evaluations, remembered, picked>>

\* a render: the pending updates become the state, the contour data are
\* computed from it by mathEngine.evaluateContour, and the effect of
\* ContourPlot clears progressMapRef when its dependencies changed
Render ==
  LET after == flush(queue, [contours |-> contours, counter |-> contourIdCounter])
      config == [contours |-> after.contours]
      data == generateContourPoints(config)
      app == flushEvents(events, [state |-> AppState(isAnimatingAll, animatingContourIds,
                                                     showingIntegralId, animationProgress),
                                  late |-> <<>>])
  IN /\ pc = "idle"
     /\ contours' = after.contours
     /\ contourIdCounter' = after.counter
     /\ queue' = <<>>
     /\ req' = [op |-> "generateContourPoints", arg |-> config]
     /\ res' = data
     /\ sampled' = sampledContours(config)
     /\ isAnimatingAll' = app.isAnimatingAll
     /\ animatingContourIds' = app.animatingContourIds
     /\ showingIntegralId' = app.showingIntegralId
     /\ animationProgress' = app.animationProgress
     /\ events' = <<>>
     /\ progressMap' = IF \/ queue # <<>>
                           \/ app.isAnimatingAll # isAnimatingAll
                           \/ makesNewSet(events, [state |-> AppState(isAnimatingAll,
                                  animatingContourIds, showingIntegralId, animationProgress),
                                  late |-> <<>>])
                        THEN NoProgress ELSE progressMap
     /\ UNCHANGED <<pc, evaluations, remembered, picked>>

\* mathEngine.evaluateDomainColoring(state.domainColoring)
EvaluateDomainColoring ==
  \E colorBy \in {"argument"} :
    LET config == defaultDomainColoring(colorBy)
        data == generateDomainColoringData(config)
    IN /\ pc = "idle"
       /\ queue = <<>>
       /\ req' = [op |-> "generateDomainColoringData", arg |-> config]
       /\ res' = data
       /\ UNCHANGED <<pc, sampled, evaluations, plot, animation>>

\* mathEngine.evaluateSurface3D(state.surface3d)
EvaluateSurface3D ==
  \E projections \in {<<"modulus", "argument">>} :
    LET config == defaultSurface3D(projections)
        data == generateSurface3DData(config)
    IN /\ pc = "idle"
       /\ queue = <<>>
       /\ req' = [op |-> "generateSurface3DData", arg |-> config]
       /\ res' = data
       /\ evaluations' = surfaceEvaluations(config)
       /\ UNCHANGED <<pc, sampled, plot, animation>>

\* mathEngine.evaluateContourIntegral(contour) for a displayed contour
EvaluateContourIntegral ==
  \E k \in 1..Len(contours) :
    LET data == computeContourIntegral(contours[k])
    IN /\ pc = "idle"
       /\ queue = <<>>
       /\ req' = [op |-> "computeContourIntegral", arg |-> contours[k]]
       /\ res' = data
       /\ UNCHANGED <<pc, sampled, evaluations, plot, animation>>

\* handleTMinChange of the row of a displayed contour: a text that parses
\* is committed
HandleTMinChange ==
  \E k \in 1..Len(contours) : \E input \in TypedNumbers :
    LET parsed == parseNumericInput(input)
    IN /\ ~parsed.isNull
       /\ Dispatch(Updater("updateContour", contours[k].id, RangePartial("tMin", parsed.val)),
                   contourIdCounter)

\* handleTMaxChange of the row of a displayed contour
HandleTMaxChange ==
  \E k \in 1..Len(contours) : \E input \in TypedNumbers :
    LET parsed == parseNumericInput(input)
    IN /\ ~parsed.isNull
       /\ Dispatch(Updater("updateContour", contours[k].id, RangePartial("tMax", parsed.val)),
                   contourIdCounter)

\* the caller takes the output of the latest call away, to compare the
\* outputs of later calls with it
KeepOutput ==
  /\ pc = "idle"
  /\ req.op # "none"
  /\ remembered = NoCall
  /\ remembered' = Call(req.op, req.arg, res, contourIdCounter)
  /\ req' = [op |-> "none", arg |-> <<>>]
  /\ res' = <<>>
  /\ UNCHANGED <<pc, sampled, evaluations, contours, contourIdCounter, queue, animation>>

PlotNext ==
  \/ AddContour
  \/ RemoveContour
  \/ UpdateContour
  \/ ResetToDefaults
  \/ Render

PlotSpec == PlotInit /\ [][PlotNext]_vars

\* a click on the remove button of a row: the button is there when the
\* list was rendered with more than one contour
ClickRemove ==
  /\ Len(contours) > 1
  /\ \E k \in 1..Len(contours) :
       Dispatch(Updater("removeContour", contours[k].id, NoUpdates), contourIdCounter)

\* the plot state under the buttons of the contour list
ListNext ==
  \/ ClickRemove
  \/ AddContour
  \/ ResetToDefaults
  \/ UpdateContour
  \/ Render

ListSpec == PlotInit /\ [][ListNext]_vars

\* the plot state under edits of the t-range inputs
RangeNext ==
  \/ HandleTMinChange
  \/ HandleTMaxChange
  \/ AddContour
  \/ Render

RangeSpec == PlotInit /\ [][RangeNext]_vars

\* a handler of App called: its state updates wait for the render
Post(event) ==
  /\ pc = "idle"
  /\ Len(queue) + Len(events) < MaxQueue
  /\ events' = Append(events, event)
  /\ UNCHANGED <<engine, plot, isAnimatingAll, animatingContourIds, showingIntegralId,
                 animationProgress, progressMap, picked>>

\* the "animate all" button: the handler was created by the last render and
\* tests the isAnimatingAll of that render
ToggleAnimationAll == Post(Event("toggleAnimationAll", NoId, isAnimatingAll, Fin(0)))

\* the animate button of a displayed contour
ToggleContourAnimation ==
  \E k \in 1..Len(contours) :
    Post(Event("toggleContourAnimation", contours[k].id, FALSE, Fin(0)))

\* the integral button of a displayed contour: the updater runs in the
\* render or, with no update pending, possibly at once on the rendered state
ToggleShowIntegral ==
  \E k \in 1..Len(contours) :
    \/ Post(Event("toggleShowIntegral", contours[k].id, FALSE, Fin(0)))
    \/ /\ queue = <<>> /\ events = <<>>
       /\ Post(Event(IF showingIntegralId = contours[k].id THEN "integralHidden"
                                                           ELSE "integralShown",
                     contours[k].id, FALSE, Fin(0)))

\* the mode switch
HandleModeChange == Post(Event("handleModeChange", NoId, FALSE, Fin(0)))

\* the contour list and the animation controls
AnimNext ==
  \/ ToggleAnimationAll
  \/ ToggleContourAnimation
  \/ ToggleShowIntegral
  \/ HandleModeChange
  \/ AddContour
  \/ ClickRemove
  \/ ResetToDefaults
  \/ Render

AnimSpec == PlotInit /\ [][AnimNext]_vars

\* ranges and speeds the rows of the contour list are set to
FrameSpeeds == {1, 5, 10}
FrameContours ==
  {<<[createContourEntry(0, DefaultCurve, 0, range, MaxTSteps) EXCEPT
        !.animationSpeed = speed]>> : range \in Ranges, speed \in FrameSpeeds}
  \cup {<<createContourEntry(0, DefaultCurve, 0, DefaultRange, MaxTSteps),
          [createContourEntry(1, DefaultCurve, 1, range, MaxTSteps) EXCEPT
             !.animationSpeed = speed]>> : range \in Ranges, speed \in FrameSpeeds}

\* the plot with its ranges and speeds set, before the animation starts
FrameInit ==
  /\ pc = "idle"
  /\ req = [op |-> "none", arg |-> <<>>]
  /\ res = <<>>
  /\ sampled = <<>>
  /\ evaluations = 0
  /\ contours \in FrameContours
  /\ contourIdCounter = Len(contours)
  /\ queue = <<>>
  /\ remembered = NoCall
  /\ AppMounted

\* one frame of ContourPlot's animation loop: every tracer gets its
\* position, and the animating ones their t in progressMapRef
ContourFrame ==
  /\ pc = "idle"
  /\ req.op = "generateContourPoints"
  /\ ~res.thrown
  /\ isAnimatingAll \/ animatingContourIds # {}
  /\ tracerInfo(res.val) # <<>>
  /\ LET tracers == tracerInfo(res.val)
         steps == [k \in 1..Len(tracers) |->
                     tracerStep(tracers[k], isAnimatingAll, animatingContourIds, progressMap)]
         moving == {k \in 1..Len(tracers) : steps[k].animating}
     IN /\ picked' = [k \in 1..Len(tracers) |-> steps[k].index]
        /\ progressMap' =
             [id \in DOMAIN progressMap \cup {tracers[k].id : k \in moving} |->
                IF \E k \in moving : tracers[k].id = id
                THEN steps[CHOOSE k \in moving : tracers[k].id = id].currentT
                ELSE progressMap[id]]
  /\ UNCHANGED <<engine, plot, isAnimatingAll, animatingContourIds, showingIntegralId,
                 animationProgress, events>>

\* the contour of the integral view
integralContour ==
  IF showingIntegralId = NoId \/ \A k \in 1..Len(contours) : contours[k].id # showingIntegralId
  THEN <<>>
  ELSE <<contours[CHOOSE k \in 1..Len(contours) : contours[k].id = showingIntegralId]>>

isIntegralAnimating ==
  showingIntegralId # NoId /\ (isAnimatingAll \/ showingIntegralId \in animatingContourIds)

\* one frame of App's integral animation: the progress moves on by
\* 0.02 * speed / tRange at the next render
IntegralFrame ==
  /\ isIntegralAnimating
  /\ integralContour # <<>>
  /\ LET shown == integralContour[1]
         tRange == Sub(shown.tMax, shown.tMin)
     IN Post(Event("animate", NoId, FALSE, Div(tIncrement(shown.animationSpeed), tRange)))

\* the tracers of the contour plot
TracerNext ==
  \/ ToggleAnimationAll
  \/ ToggleContourAnimation
  \/ ContourFrame
  \/ Render

TracerSpec == FrameInit /\ [][TracerNext]_vars

\* the integral view and its animation
IntegralNext ==
  \/ ToggleContourAnimation
  \/ ToggleShowIntegral
  \/ IntegralFrame
  \/ Render

IntegralSpec == FrameInit /\ [][IntegralNext]_vars

SessionNext ==
  \/ PlotNext
  \/ EvaluateDomainColoring
  \/ EvaluateSurface3D
  \/ EvaluateContourIntegral
  \/ KeepOutput

SessionSpec == PlotInit /\ [][SessionNext]_vars

\* ------------------------------------------------------------------------
\* Properties
\* ------------------------------------------------------------------------
Served(op) == pc = "done" /\ req.op = op
\* the expression is handed to compile() and compile() returns
Compiles(expr) == ~isBlank(expr.text) /\ ~SyntaxError(expr.text)
\* the input of the cell at row j, column i (both counted from 1)
CellInput(config, j, i) ==
  ComplexPoint(
    sampleAt(config.xMin, i - 1, stepSize(config.xMin, config.xMax, config.resolution)),
    sampleAt(config.yMin, j - 1, stepSize(config.yMin, config.yMax, config.resolution)))
\* what the expression yields at that cell
CellResult(config, j, i) ==
  evaluate(config.expression.fn, Scope("z", toMathComplex(CellInput(config, j, i))))
Square(grid, n) == Len(grid) = n /\ \A j \in 1..n : Len(grid[j]) = n

\* C1: when a grid generator compiles its expression, each grid it returns
\* has exactly `resolution` rows of exactly `resolution` entries, whatever
\* the evaluations at the cells yield or throw.
C1_GridsAreSquare ==
  (pc = "done" /\ req.op \in {"generateDomainColoringData", "generateSurface3DData"}
     /\ Compiles(req.arg.expression))
  => Square(res.z, req.arg.resolution) /\ Square(res.colors, req.arg.resolution)

\* a full-size grid one cell of which threw while another is a finite number
C1_Witness ==
  /\ Served("generateDomainColoringData")
  /\ Compiles(req.arg.expression)
  /\ req.arg.resolution = MaxResolution
  /\ \E j, i \in 1..MaxResolution : CellResult(req.arg, j, i) = Thrown
  /\ \E j, i \in 1..MaxResolution : isFinite(res.z[j][i])
  /\ Square(res.z, MaxResolution)

\* C2: in generateDomainColoringData a cell whose selected projection of
\* f(z) is not finite holds NaN at its own row and column of both grids.
C2_NonFiniteCellIsNaN ==
  (Served("generateDomainColoringData") /\ Compiles(req.arg.expression))
  => \A j, i \in 1..req.arg.resolution :
       LET result == CellResult(req.arg, j, i)
           output == toComplexPoint(result)
       IN (result.kind # "throw" /\ ~output.thrown
             /\ getColorValue(output.val, req.arg.colorBy).c # "fin")
          => /\ j <= Len(res.z) /\ i <= Len(res.z[j]) /\ res.z[j][i] = NaN
             /\ j <= Len(res.colors) /\ i <= Len(res.colors[j]) /\ res.colors[j][i] = NaN

\* an infinite modulus, written as NaN next to a finite cell
C2_Witness ==
  /\ Served("generateDomainColoringData")
  /\ Compiles(req.arg.expression)
  /\ req.arg.resolution = MaxResolution
  /\ req.arg.colorBy = "modulus"
  /\ CellResult(req.arg, 1, MaxResolution) = Number(PInf)
  /\ res.z[1][MaxResolution] = NaN /\ res.colors[1][MaxResolution] = NaN
  /\ isFinite(res.z[1][1])

\* the final value of the sample at `step`: gamma(t), or f(gamma(t)) when
\* the contour has a transform; ok is false when an evaluation threw
FinalValue(contour, step) ==
  LET t == sampleAt(contour.tMin, step, stepSize(contour.tMin, contour.tMax, contour.tSteps))
      gammaResult == evaluate(contour.expression.fn, Scope("t", Number(t)))
      gamma == toComplexPoint(gammaResult)
      transformed == evaluate(contour.transformFunction.fn,
                              Scope("z", toMathComplex(gamma.val)))
      final == toComplexPoint(transformed)
  IN IF gammaResult.kind = "throw" \/ gamma.thrown THEN [ok |-> FALSE, val |-> Throw.val]
     ELSE IF isBlank(contour.transformFunction.text) THEN [ok |-> TRUE, val |-> gamma.val]
     ELSE IF transformed.kind = "throw" \/ final.thrown THEN [ok |-> FALSE, val |-> Throw.val]
     ELSE [ok |-> TRUE, val |-> final.val]
FiniteFinal(fv) == fv.ok /\ isFinite(fv.val.re) /\ isFinite(fv.val.im)
\* the finite final values of the samples 0..tSteps-1, in step order
FiniteSamples(contour) ==
  LET finals == SelectSeq([k \in 1..contour.tSteps |-> FinalValue(contour, k - 1)], FiniteFinal)
  IN [k \in 1..Len(finals) |-> finals[k].val]
\* the contour passes the filter and both of its expressions compile
Sampled(contour) ==
  /\ contour.enabled
  /\ Compiles(contour.expression)
  /\ isBlank(contour.transformFunction.text) \/ Compiles(contour.transformFunction)

\* the contour passes the filter of generateContourPoints
Wanted(contour) == contour.enabled /\ ~isBlank(contour.expression.text)
Kept(list) == SelectSeq(list, Wanted)

\* C3: the points of a sampled contour are exactly its samples with a
\* finite final value, in step order: all finite, none missing, none
\* replaced by a sentinel, at most tSteps of them.
C3_PointsAreFiniteSamples ==
  (Served("generateContourPoints") /\ ~res.thrown)
  => LET kept == Kept(req.arg.contours)
     IN /\ Len(res.val) = Len(kept)
        /\ \A n \in 1..Len(kept) :
             Sampled(kept[n])
             => /\ res.val[n].points = FiniteSamples(kept[n])
                /\ \A k \in 1..Len(res.val[n].points) :
                     isFinite(res.val[n].points[k].re) /\ isFinite(res.val[n].points[k].im)
                /\ Len(res.val[n].points) <= kept[n].tSteps

\* C3, for every tSteps: the points of a sampled contour are exactly its
\* samples with a finite final value, in step order, all finite, and at
\* most max(tSteps, 0) of them (a negative tSteps gives no point).
C3_PointsAreFiniteSamplesOfCount ==
  (Served("generateContourPoints") /\ ~res.thrown)
  => LET kept == Kept(req.arg.contours)
     IN /\ Len(res.val) = Len(kept)
        /\ \A n \in 1..Len(kept) :
             Sampled(kept[n])
             => /\ res.val[n].points = FiniteSamples(kept[n])
                /\ \A k \in 1..Len(res.val[n].points) :
                     isFinite(res.val[n].points[k].re) /\ isFinite(res.val[n].points[k].im)
                /\ Len(res.val[n].points) <= Max(kept[n].tSteps, 0)

\* a contour with a transform that lost its first sample to a non-finite
\* final value and kept the others
C3_Witness ==
  /\ Served("generateContourPoints") /\ ~res.thrown
  /\ Len(req.arg.contours) = 1 /\ Sampled(req.arg.contours[1])
  /\ req.arg.contours[1].tSteps = MaxTSteps
  /\ ~isBlank(req.arg.contours[1].transformFunction.text)
  /\ FinalValue(req.arg.contours[1], 0).ok /\ ~FiniteFinal(FinalValue(req.arg.contours[1], 0))
  /\ Len(res.val[1].points) = MaxTSteps - 1

\* C4: a contour whose curve expression does not compile gets the empty
\* point sequence, and generateContourPoints returns without an exception.
C4_CompileFailureGivesNoPoints ==
  Served("generateContourPoints")
  => /\ ~res.thrown
     /\ Len(res.val) = Len(Kept(req.arg.contours))
     /\ \A k \in 1..Len(res.val) :
          SyntaxError(Kept(req.arg.contours)[k].expression.text) => res.val[k].points = <<>>

\* a malformed curve expression after a well-formed one
C4_Witness ==
  /\ Served("generateContourPoints") /\ ~res.thrown
  /\ Len(res.val) = 2
  /\ req.arg.contours[2].expression.text = <<"z", "+">>
  /\ res.val[1].points # <<>>
  /\ res.val[2].points = <<>>

\* both expressions compile, and no sample can survive
NothingComputable(contour) ==
  /\ Compiles(contour.expression)
  /\ isBlank(contour.transformFunction.text) \/ Compiles(contour.transformFunction)
  /\ \/ contour.tSteps = 0
     \/ contour.expression.fn = Fn("throws", NoHoles)
\* the curve is blank, or an expression does not compile
ComputationFailed(contour) ==
  \/ ~Compiles(contour.expression)
  \/ ~isBlank(contour.transformFunction.text) /\ ~Compiles(contour.transformFunction)
\* C5: computeContourIntegral returns null when no sample survives, and a
\* failed computation (a blank expression, or one that does not compile)
\* returns something else than that null.
C5_NullMeansNothingComputable ==
  Served("computeContourIntegral")
  => /\ NothingComputable(req.arg) => res = NoIntegral
     /\ ComputationFailed(req.arg) => res # NoIntegral

\* an evaluation that ends in an exception: mathjs throws, or it returns
\* null or undefined and the conversion throws
Failing == {Thrown, Nullish}
AsNaN(raw) == IF raw \in Failing THEN Object(NaN, NaN) ELSE raw
\* the expression with every failing evaluation replaced by NaN + NaN i
FailuresAsNaN(expr) ==
  [expr EXCEPT !.fn.value = AsNaN(@),
               !.fn.holes = [b \in DOMAIN @ |-> AsNaN(@[b])]]
\* the same replacement in the expression that yields the final value
ContourFailuresAsNaN(contour) ==
  IF isBlank(contour.transformFunction.text)
  THEN [contour EXCEPT !.expression = FailuresAsNaN(@)]
  ELSE [contour EXCEPT !.transformFunction = FailuresAsNaN(@)]
IntegralFailuresAsNaN(contour) ==
  [contour EXCEPT !.expression = FailuresAsNaN(@), !.transformFunction = FailuresAsNaN(@)]
\* the parameter values of the samples that survive when integrated alone
SurvivorsAlone(contour) ==
  LET dt == stepSize(contour.tMin, contour.tMax, contour.tSteps)
      f == IF isBlank(contour.transformFunction.text) THEN One ELSE contour.transformFunction
      Survives(t) ==
        integralStep(contour.expression.fn, f.fn, t, dt,
                     [tValues |-> <<>>, contourPoints |-> <<>>, integrandVectors |-> <<>>,
                      runningSum |-> <<>>,
                      currentSum |-> ComplexPoint(Fin(0), Fin(0))]).tValues # <<>>
  IN SelectSeq([k \in 1..contour.tSteps |-> sampleAt(contour.tMin, k - 1, dt)], Survives)

\* C6: in each batch generator a sample whose evaluation throws is treated
\* as a sample whose result is not finite (the result is the one obtained
\* with NaN + NaN i in place of the exception: the sample is dropped from a
\* contour or an integral, the cell is NaN in a grid), and the other
\* samples are all processed: grids keep their shape, a contour holds
\* every sample with a finite final value, an integral every sample that
\* survives on its own.
C6_ThrowIsLocalAndLikeNonFinite ==
  /\ (Served("generateDomainColoringData") /\ Compiles(req.arg.expression))
     => /\ res = generateDomainColoringData(
                   [req.arg EXCEPT !.expression = FailuresAsNaN(@)])
        /\ Square(res.z, req.arg.resolution) /\ Square(res.colors, req.arg.resolution)
        /\ \A j, i \in 1..req.arg.resolution :
             CellResult(req.arg, j, i) \in Failing
             => res.z[j][i] = NaN /\ res.colors[j][i] = NaN
  /\ (Served("generateSurface3DData") /\ Compiles(req.arg.expression))
     => /\ res = generateSurface3DData([req.arg EXCEPT !.expression = FailuresAsNaN(@)])
        /\ Square(res.z, req.arg.resolution) /\ Square(res.colors, req.arg.resolution)
        /\ \A j, i \in 1..req.arg.resolution :
             CellResult(req.arg, j, i) \in Failing
             => res.z[j][i] = NaN /\ res.colors[j][i] = NaN
  /\ Served("generateContourPoints")
     => /\ res = generateContourPoints(
                   [contours |-> [k \in 1..Len(req.arg.contours) |->
                                    ContourFailuresAsNaN(req.arg.contours[k])]])
        /\ (Len(req.arg.contours) = 1 /\ Sampled(req.arg.contours[1]))
           => res.val[1].points = FiniteSamples(req.arg.contours[1])
  /\ (Served("computeContourIntegral") /\ ~ComputationFailed(req.arg))
     => /\ res = computeContourIntegral(IntegralFailuresAsNaN(req.arg))
        /\ res.isNull <=> SurvivorsAlone(req.arg) = <<>>
        /\ ~res.isNull => res.tValues = SurvivorsAlone(req.arg)

\* a contour whose first sample threw and whose later samples are all there
C6_Witness ==
  /\ Served("generateContourPoints") /\ ~res.thrown
  /\ Len(req.arg.contours) = 1 /\ Sampled(req.arg.contours[1])
  /\ req.arg.contours[1].tSteps = MaxTSteps
  /\ evaluate(req.arg.contours[1].expression.fn,
              Scope("t", Number(req.arg.contours[1].tMin))) = Thrown
  /\ Len(res.val) = 1
  /\ Len(res.val[1].points) = MaxTSteps - 1

\* the evaluation yields neither a number nor an object with numeric re
\* and im (a matrix, a function, a boolean, a string)
NotComplex(raw) == raw.kind = "object" /\ (raw.re = Absent \/ raw.im = Absent)

\* C7: a sample whose evaluation yields no number and no complex number is
\* NaN in the grids, never a number, and is left out of a contour.
C7_NoSilentZero ==
  /\ (Served("generateDomainColoringData") /\ Compiles(req.arg.expression))
     => \A j, i \in 1..req.arg.resolution :
          NotComplex(CellResult(req.arg, j, i)) => res.z[j][i] = NaN
  /\ (Served("generateContourPoints") /\ Len(req.arg.contours) = 1
        /\ Sampled(req.arg.contours[1])
        /\ isBlank(req.arg.contours[1].transformFunction.text))
     => Len(res.val[1].points) =
          Cardinality({k \in 1..req.arg.contours[1].tSteps :
             LET t == sampleAt(req.arg.contours[1].tMin, k - 1,
                        stepSize(req.arg.contours[1].tMin, req.arg.contours[1].tMax,
                                 req.arg.contours[1].tSteps))
                 raw == evaluate(req.arg.contours[1].expression.fn, Scope("t", Number(t)))
             IN FiniteFinal(FinalValue(req.arg.contours[1], k - 1)) /\ ~NotComplex(raw)})

\* C8: generateContourPoints returns one ContourData for each enabled
\* entry with a non-blank expression, in input order and with the entry's
\* id, tMin, tMax and color; no other entry is handed to the sampler.
C8_OneDataPerWantedContour ==
  Served("generateContourPoints")
  => LET kept == Kept(req.arg.contours)
     IN /\ ~res.thrown
        /\ Len(res.val) = Len(kept)
        /\ \A k \in 1..Len(kept) :
             /\ res.val[k].id = kept[k].id
             /\ res.val[k].tMin = kept[k].tMin
             /\ res.val[k].tMax = kept[k].tMax
             /\ res.val[k].color = kept[k].color
        /\ sampled = [k \in 1..Len(kept) |-> kept[k].id]

\* a disabled entry with a well-formed expression ahead of an enabled one
C8_Witness ==
  /\ Served("generateContourPoints") /\ ~res.thrown
  /\ Len(req.arg.contours) = 2
  /\ ~req.arg.contours[1].enabled /\ req.arg.contours[1].expression.text = <<"z">>
  /\ req.arg.contours[2].enabled
  /\ Len(res.val) = 1 /\ res.val[1].id = 2
  /\ sampled = <<2>>

\* C9: the outcome of parseExpression for an empty or whitespace-only text
\* differs from its outcome for every malformed text.
C9_BlankDistinctFromMalformed ==
  (Served("parseExpression") /\ isBlank(req.arg.text))
  => \A tx \in Texts : SyntaxError(tx) => res # parseExpression(Expr(tx, Identity))

\* C10: parseExpression, parseAndCompile and isValidExpression return a
\* node or null, a parsed expression or null, and a boolean: no exception
\* of parse or compile reaches the caller.
C10_ParserNeverThrows ==
  /\ Served("parseExpression") => res.kind \in {"node", "null"}
  /\ Served("parseAndCompile") => res.kind \in {"parsed", "null"}
  /\ Served("isValidExpression") => res.kind = "boolean"
  /\ (Served("parseExpression") /\ SyntaxError(req.arg.text)) => res = NoNode
  /\ (Served("isValidExpression") /\ SyntaxError(req.arg.text)) => res.value = FALSE

\* a malformed text, for which parse throws inside parseExpression
C10_Witness ==
  /\ Served("parseExpression")
  /\ SyntaxError(req.arg.text)
  /\ res = NoNode

\* the configuration with the same expression text whose evaluation has no
\* departure from its base behaviour
Plain(config) == [config EXCEPT !.expression.fn.holes = NoHoles]
\* the grids of either grid generator
Grids(op, config) ==
  IF op = "generateDomainColoringData" THEN generateDomainColoringData(config)
  ELSE generateSurface3DData(config)
GridServed ==
  /\ pc = "done"
  /\ req.op \in {"generateDomainColoringData", "generateSurface3DData"}
  /\ Compiles(req.arg.expression)

\* C12: in the grids of either grid generator the entry of a cell is
\* determined by the outcome of the evaluation at that cell's coordinates:
\* cells with equal outcomes hold equal entries, and replacing the outcome
\* at one point of the plane (by a thrown error, a non-finite value or any
\* other outcome) leaves the entries of all cells at other coordinates as
\* they are.
C12_CellDependsOnOwnOutcome ==
  GridServed
  => LET other == Grids(req.op, Plain(req.arg))
         cells == (1..req.arg.resolution) \X (1..req.arg.resolution)
     IN /\ \A c \in cells :
             toMathComplex(CellInput(req.arg, c[1], c[2])) \notin DOMAIN req.arg.expression.fn.holes
             => /\ res.z[c[1]][c[2]] = other.z[c[1]][c[2]]
                /\ res.colors[c[1]][c[2]] = other.colors[c[1]][c[2]]
        /\ \A c, d \in cells :
             CellResult(req.arg, c[1], c[2]) = CellResult(req.arg, d[1], d[2])
             => /\ res.z[c[1]][c[2]] = res.z[d[1]][d[2]]
                /\ res.colors[c[1]][c[2]] = res.colors[d[1]][d[2]]

\* the evaluation at the first cell throws, the one at its neighbour does
\* not: the first cell is NaN and the neighbour holds its finite value
C12_Witness ==
  /\ GridServed
  /\ req.op = "generateSurface3DData"
  /\ req.arg.resolution = MaxResolution
  /\ CellResult(req.arg, 1, 1) = Thrown
  /\ CellResult(Plain(req.arg), 1, 1) # Thrown
  /\ res.z[1][1] = NaN
  /\ isFinite(res.z[1][2])
  /\ res.z[1][2] = Grids(req.op, Plain(req.arg)).z[1][2]

\* sub is seq with some of its elements left out, the others in their order
RECURSIVE IsSubsequence(_, _)
IsSubsequence(sub, seq) ==
  IF sub = <<>> THEN TRUE
  ELSE IF seq = <<>> THEN FALSE
  ELSE IF Head(sub) = Head(seq) /\ IsSubsequence(Tail(sub), Tail(seq)) THEN TRUE
  ELSE IsSubsequence(sub, Tail(seq))
\* the final values of the samples 0..tSteps-1 that did not throw, in step order
Finals(contour) ==
  LET ok(fv) == fv.ok
      finals == SelectSeq([k \in 1..contour.tSteps |-> FinalValue(contour, k - 1)], ok)
  IN [k \in 1..Len(finals) |-> finals[k].val]
\* the entry a grid holds for an evaluation outcome under a projection
CellEntry(raw, projection) ==
  LET output == toComplexPoint(raw)
      value == getColorValue(output.val, projection)
  IN IF raw.kind = "throw" \/ output.thrown THEN NaN
     ELSE IF isFinite(value) THEN value ELSE NaN
\* the projection shown in the z grid of the served grid generator
HeightProjection ==
  IF req.op = "generateSurface3DData" THEN req.arg.heightBy ELSE req.arg.colorBy

\* C13: outputs keep the sampling order.  The points of a sampled contour
\* are a subsequence of its samples taken in increasing step index; in a
\* grid, row j (counted in increasing j) holds, at position i (counted in
\* increasing i), the entry of the cell sampled at row j and column i.
C13_OutputsKeepSamplingOrder ==
  /\ (Served("generateContourPoints") /\ ~res.thrown)
     => LET kept == Kept(req.arg.contours)
        IN \A n \in 1..Len(kept) :
             Sampled(kept[n]) => IsSubsequence(res.val[n].points, Finals(kept[n]))
  /\ GridServed
     => \A j, i \in 1..req.arg.resolution :
          /\ res.z[j][i] = CellEntry(CellResult(req.arg, j, i), HeightProjection)
          /\ res.colors[j][i] = CellEntry(CellResult(req.arg, j, i), req.arg.colorBy)

\* a contour of two distinct points, the one of the earlier step first
C13_Witness ==
  /\ Served("generateContourPoints")
  /\ ~res.thrown
  /\ Len(res.val) = 1
  /\ Len(res.val[1].points) = 2
  /\ res.val[1].points[1] # res.val[1].points[2]
  /\ res.val[1].points[1] = FinalValue(Kept(req.arg.contours)[1], 0).val
  /\ res.val[1].points[2] = FinalValue(Kept(req.arg.contours)[1], 1).val

\* min + k * d with d = (max - min) / max(n - 1, 1), in the number arithmetic
Coordinate(min, max, n, k) ==
  Add(min, Mul(Count(k), Div(Sub(max, min), Count(Max(n - 1, 1)))))
\* a finite number within `units` representable steps of another
Near(a, b, units) == a.c = "fin" /\ b.c = "fin" /\ Abs(a.v - b.v) <= units
\* a grid generator served an expression that yields its argument, so that
\* the real and imaginary projections show where each cell was evaluated
CoordinatesShown == GridServed /\ req.arg.expression.fn = Identity
\* whether, and where, the grids show the real part and the imaginary part
\* at which cell (j, i) was evaluated
XShown ==
  (req.op = "generateSurface3DData" /\ req.arg.heightBy = "real") \/ req.arg.colorBy = "real"
YShown ==
  (req.op = "generateSurface3DData" /\ req.arg.heightBy = "imaginary")
  \/ req.arg.colorBy = "imaginary"
ShownX(j, i) ==
  IF req.op = "generateSurface3DData" /\ req.arg.heightBy = "real" THEN res.z[j][i]
  ELSE res.colors[j][i]
ShownY(j, i) ==
  IF req.op = "generateSurface3DData" /\ req.arg.heightBy = "imaginary" THEN res.z[j][i]
  ELSE res.colors[j][i]

\* the cell at row j, column i is evaluated at
\* (xMin + i dx) + i (yMin + j dy): the column selects the real part and the
\* row the imaginary part; the surface generator returns the same
\* coordinates as its x and y arrays
CellsAtFormula ==
  CoordinatesShown
  => LET n == req.arg.resolution
     IN /\ \A j, i \in 1..n :
             /\ XShown => ShownX(j, i) = Coordinate(req.arg.xMin, req.arg.xMax, n, i - 1)
             /\ YShown => ShownY(j, i) = Coordinate(req.arg.yMin, req.arg.yMax, n, j - 1)
        /\ req.op = "generateSurface3DData"
           => /\ Len(res.x) = n /\ Len(res.y) = n
              /\ \A k \in 1..n :
                   /\ res.x[k] = Coordinate(req.arg.xMin, req.arg.xMax, n, k - 1)
                   /\ res.y[k] = Coordinate(req.arg.yMin, req.arg.yMax, n, k - 1)
\* the first column and row sit on xMin and yMin (for resolution 1 they are
\* the only ones)
FirstOnLowerBounds ==
  (CoordinatesShown /\ req.arg.resolution >= 1)
  => /\ XShown => ShownX(1, 1) = req.arg.xMin
     /\ YShown => ShownY(1, 1) = req.arg.yMin
\* the last column and row sit within `units` steps of xMax and yMax
LastOnUpperBounds(units) ==
  (CoordinatesShown /\ req.arg.resolution >= 2)
  => LET n == req.arg.resolution
     IN /\ XShown => Near(ShownX(n, n), req.arg.xMax, units)
        /\ YShown => Near(ShownY(n, n), req.arg.yMax, units)

\* C14 as stated: cells at the formula, the first column and row exactly on
\* xMin and yMin, and for resolution >= 2 the last column and row exactly on
\* xMax and yMax.
C14_EndpointsExact == CellsAtFormula /\ FirstOnLowerBounds /\ LastOnUpperBounds(0)

\* C14: the cell at row j, column i is evaluated at x + iy with
\* x = xMin + i dx and y = yMin + j dy, dx = (xMax - xMin) / max(resolution - 1, 1)
\* and dy likewise; the first column and row sit exactly on xMin and yMin
\* (the only cell, for resolution 1); the last column and row sit on xMax
\* and yMax up to the rounding of the division: within half a
\* representable step for each of the resolution - 1 intervals.
C14_CellCoordinates ==
  /\ CellsAtFormula
  /\ FirstOnLowerBounds
  /\ LastOnUpperBounds(req.arg.resolution \div 2)

\* a grid of side MaxResolution whose last column misses xMax by rounding
C14_Witness ==
  /\ CoordinatesShown
  /\ req.op = "generateSurface3DData"
  /\ req.arg.heightBy = "real"
  /\ req.arg.resolution = MaxResolution
  /\ res.z[1][1] = req.arg.xMin
  /\ res.z[1][MaxResolution] # req.arg.xMax
  /\ Near(res.z[1][MaxResolution], req.arg.xMax, 1)
  /\ res.x[MaxResolution] = res.z[1][MaxResolution]

\* generateContourPoints served one enabled contour whose curve yields its
\* parameter and which has no transform, so that its points show the
\* parameter values at which evaluateSingleContour sampled
ParametersShown ==
  /\ Served("generateContourPoints")
  /\ ~res.thrown
  /\ Len(req.arg.contours) = 1
  /\ Wanted(req.arg.contours[1])
  /\ Compiles(req.arg.contours[1].expression)
  /\ req.arg.contours[1].expression.fn = Identity
  /\ isBlank(req.arg.contours[1].transformFunction.text)
\* the sample of step k - 1 is at t = tMin + (k - 1) dt, and there are
\* tSteps samples (none for tSteps <= 0)
SamplesAtFormula ==
  ParametersShown
  => LET c == req.arg.contours[1]
         points == res.val[1].points
     IN /\ Len(points) = Max(c.tSteps, 0)
        /\ \A k \in 1..Len(points) :
             points[k] = ComplexPoint(Coordinate(c.tMin, c.tMax, c.tSteps, k - 1), Fin(0))
        /\ c.tSteps >= 1 => points[1].re = c.tMin
\* for tSteps >= 2 the last sample is within `units` steps of tMax
LastSampleOnTMax(units) ==
  (ParametersShown /\ req.arg.contours[1].tSteps >= 2)
  => Near(res.val[1].points[req.arg.contours[1].tSteps].re, req.arg.contours[1].tMax, units)

\* C15 as stated: samples at tMin + step dt, the first at tMin, none for
\* tSteps <= 0, and for tSteps >= 2 the last exactly at tMax.
C15_LastSampleExact == SamplesAtFormula /\ LastSampleOnTMax(0)

\* C15: evaluateSingleContour samples t = tMin + step dt for
\* step = 0..tSteps-1 with dt = (tMax - tMin) / max(tSteps - 1, 1); the first
\* sample is exactly at tMin (the only one for tSteps = 1); for tSteps <= 0
\* nothing is sampled and the result is empty; for tSteps >= 2 the last
\* sample is at tMax up to the rounding of the division: within half a
\* representable step for each of the tSteps - 1 intervals.
C15_SampleParameters ==
  /\ SamplesAtFormula
  /\ LastSampleOnTMax(IF ParametersShown THEN req.arg.contours[1].tSteps \div 2 ELSE 0)

\* MaxTSteps samples, the first at tMin and the last one step off tMax
C15_Witness ==
  /\ ParametersShown
  /\ req.arg.contours[1].tSteps = MaxTSteps
  /\ Len(res.val[1].points) = MaxTSteps
  /\ res.val[1].points[1].re = req.arg.contours[1].tMin
  /\ res.val[1].points[MaxTSteps].re # req.arg.contours[1].tMax
  /\ Near(res.val[1].points[MaxTSteps].re, req.arg.contours[1].tMax, 1)

\* computeContourIntegral served a contour both of whose expressions compile
IntegralServed ==
  /\ Served("computeContourIntegral")
  /\ Compiles(req.arg.expression)
  /\ isBlank(req.arg.transformFunction.text) \/ Compiles(req.arg.transformFunction)
\* the integrand function: the transform, or the constant 1 without one
IntegrandFn(contour) ==
  IF isBlank(contour.transformFunction.text) THEN One.fn ELSE contour.transformFunction.fn
\* spacing, derivative step and parameter of the sample at `step`
Dt(contour) == Div(Sub(contour.tMax, contour.tMin), Count(Max(contour.tSteps - 1, 1)))
H(contour) == Mul(Dt(contour), Fin(Unit \div 100))
T(contour, step) == Add(contour.tMin, Mul(Count(step), Dt(contour)))
Gamma(contour, t) == evalGamma(contour.expression.fn, t)
\* (a - b) / d, componentwise
Quotient(a, b, d) == ComplexPoint(Div(Sub(a.re, b.re), d), Div(Sub(a.im, b.im), d))
\* the derivative estimate the claim prescribes at `step`
Derivative(contour, step) ==
  LET t == T(contour, step)
      h == H(contour)
      plus == Gamma(contour, Add(t, h))
      minus == Gamma(contour, Sub(t, h))
  IN IF usable(plus) /\ usable(minus)
     THEN [kind |-> "central", val |-> Quotient(plus.val, minus.val, Mul(Count(2), h))]
     ELSE IF usable(plus)
          THEN [kind |-> "forward", val |-> Quotient(plus.val, Gamma(contour, t).val, h)]
          ELSE [kind |-> "none", val |-> ComplexPoint(NaN, NaN)]
\* f(gamma(t)) gamma'(t) at `step`
Integrand(contour, step) ==
  complexMultiply(evalF(IntegrandFn(contour), Gamma(contour, T(contour, step)).val).val,
                  Derivative(contour, step).val)
\* the sample at `step` is appended
Survives(contour, step) ==
  /\ usable(Gamma(contour, T(contour, step)))
  /\ Derivative(contour, step).kind # "none"
  /\ usable(evalF(IntegrandFn(contour), Gamma(contour, T(contour, step)).val))
  /\ isFinitePoint(Integrand(contour, step))
\* the steps whose samples are appended, in order
Survivors(contour) ==
  LET keep(step) == Survives(contour, step)
  IN SelectSeq([k \in 1..contour.tSteps |-> k - 1], keep)

\* C16: at a sample with finite gamma(t), computeContourIntegral estimates
\* gamma'(t) by the central difference (gamma(t+h) - gamma(t-h)) / 2h when
\* both shifted values are finite, otherwise by the forward difference
\* (gamma(t+h) - gamma(t)) / h, and when gamma(t+h) is unusable too the
\* sample is skipped: a skipped sample appends to none of the sequences.
C16_DerivativeEstimate ==
  IntegralServed
  => LET steps == Survivors(req.arg)
     IN /\ res.isNull <=> steps = <<>>
        /\ ~res.isNull
           => /\ Len(res.tValues) = Len(steps)
              /\ Len(res.contourPoints) = Len(steps)
              /\ Len(res.integrandVectors) = Len(steps)
              /\ Len(res.runningSum) = Len(steps)
              /\ \A k \in 1..Len(steps) :
                   /\ res.tValues[k] = T(req.arg, steps[k])
                   /\ res.contourPoints[k] = Gamma(req.arg, res.tValues[k]).val
                   /\ res.integrandVectors[k] = Integrand(req.arg, steps[k])

\* the first sample has no usable gamma(t-h) and is kept with the forward
\* difference; the last one is kept with the central difference
C16_Witness ==
  /\ IntegralServed
  /\ ~res.isNull
  /\ isBlank(req.arg.transformFunction.text)
  /\ req.arg.tSteps = 2
  /\ Len(res.tValues) = 2
  /\ Derivative(req.arg, 0).kind = "forward"
  /\ Derivative(req.arg, 1).kind = "central"
  /\ res.integrandVectors[1] = Derivative(req.arg, 0).val
  /\ res.integrandVectors[2] = Derivative(req.arg, 1).val

\* vectors[1] + ... + vectors[k]
RECURSIVE SumTo(_, _)
SumTo(vectors, k) ==
  IF k = 0 THEN ComplexPoint(Fin(0), Fin(0))
  ELSE complexAdd(SumTo(vectors, k - 1), vectors[k])
\* vectors[1] dt + ... + vectors[k] dt, each product rounded as it is added
RECURSIVE ScaledSumTo(_, _, _)
ScaledSumTo(vectors, dt, k) ==
  IF k = 0 THEN ComplexPoint(Fin(0), Fin(0))
  ELSE complexAdd(ScaledSumTo(vectors, dt, k - 1), complexScale(vectors[k], dt))
\* the integrand vectors of the surviving samples, computed from the contour
SurvivingIntegrands(contour) ==
  [k \in 1..Len(Survivors(contour)) |-> Integrand(contour, Survivors(contour)[k])]
NearPoint(a, b, units) == Near(a.re, b.re, units) /\ Near(a.im, b.im, units)
\* finalValue is the last running sum, and the sums are taken over the
\* surviving samples only
SumsOverSurvivors ==
  (IntegralServed /\ ~res.isNull)
  => /\ Len(res.runningSum) = Len(res.integrandVectors)
     /\ res.finalValue = res.runningSum[Len(res.runningSum)]
     /\ res.finalValue = ScaledSumTo(SurvivingIntegrands(req.arg), Dt(req.arg),
                                     Len(Survivors(req.arg)))

\* C17 as stated: runningSum[k] is dt times the sum of the integrand
\* vectors up to k, finalValue is the last running sum, and skipped samples
\* contribute nothing.
C17_SumTimesDt ==
  /\ SumsOverSurvivors
  /\ (IntegralServed /\ ~res.isNull)
     => \A k \in 1..Len(res.runningSum) :
          res.runningSum[k] = complexScale(SumTo(res.integrandVectors, k), Dt(req.arg))

\* C17: in a non-null result runningSum[k] is the sum of the products
\* integrandVectors[i] dt for i up to k, added in order; it is dt times the
\* sum of those vectors up to the rounding of the k products (one
\* representable step each) whenever that product is finite; finalValue is
\* the last running sum; skipped samples contribute nothing.
C17_RunningSums ==
  /\ SumsOverSurvivors
  /\ (IntegralServed /\ ~res.isNull)
     => \A k \in 1..Len(res.runningSum) :
          LET exact == complexScale(SumTo(res.integrandVectors, k), Dt(req.arg))
          IN /\ res.runningSum[k] = ScaledSumTo(res.integrandVectors, Dt(req.arg), k)
             /\ isFinitePoint(exact) => NearPoint(res.runningSum[k], exact, k)

\* three samples of which one is skipped; the final value is the sum of the
\* two others times dt
C17_Witness ==
  /\ IntegralServed
  /\ ~res.isNull
  /\ req.arg.tSteps = 3
  /\ Len(Survivors(req.arg)) = 2
  /\ Len(res.runningSum) = 2
  /\ res.finalValue = res.runningSum[2]
  /\ res.finalValue # ComplexPoint(Fin(0), Fin(0))
  /\ res.runningSum[1] # res.runningSum[2]

\* C18: when the transform of the contour is empty or only whitespace,
\* computeContourIntegral integrates the constant 1: each integrand vector
\* of the result is the derivative estimate gamma'(t) of its sample, and
\* the transformFunction of the result is the text "1".
C18_DefaultIntegrandIsOne ==
  (IntegralServed /\ isBlank(req.arg.transformFunction.text) /\ ~res.isNull)
  => /\ res.transformFunction = <<"1">>
     /\ Len(res.integrandVectors) = Len(Survivors(req.arg))
     /\ \A k \in 1..Len(res.integrandVectors) :
          res.integrandVectors[k] = Derivative(req.arg, Survivors(req.arg)[k]).val

\* a whitespace-only transform: the integrand vectors are the nonzero
\* derivative estimates of the curve
C18_Witness ==
  /\ IntegralServed
  /\ req.arg.transformFunction.text = <<" ">>
  /\ ~res.isNull
  /\ res.transformFunction = <<"1">>
  /\ Len(res.integrandVectors) = 2
  /\ res.integrandVectors[1] = Derivative(req.arg, Survivors(req.arg)[1]).val
  /\ res.integrandVectors[1] # ComplexPoint(Fin(0), Fin(0))

\* C19: generateSurface3DData calls evaluate() once for each of its
\* resolution x resolution cells and derives the height (heightBy) and the
\* color (colorBy) of the cell from that one outcome; each of the two is
\* NaN when its own projection is not finite, whatever the other is, and an
\* evaluation that throws makes the cell NaN in both grids.
C19_OneEvaluationTwoProjections ==
  (Served("generateSurface3DData") /\ Compiles(req.arg.expression))
  => /\ evaluations = req.arg.resolution * req.arg.resolution
     /\ \A j, i \in 1..req.arg.resolution :
          LET raw == CellResult(req.arg, j, i)
              output == toComplexPoint(raw)
              height == getColorValue(output.val, req.arg.heightBy)
              color == getColorValue(output.val, req.arg.colorBy)
          IN IF raw.kind = "throw" \/ output.thrown
             THEN res.z[j][i] = NaN /\ res.colors[j][i] = NaN
             ELSE /\ res.z[j][i] = (IF isFinite(height) THEN height ELSE NaN)
                  /\ res.colors[j][i] = (IF isFinite(color) THEN color ELSE NaN)

\* a cell with a finite height and an invalid color, next to a cell whose
\* evaluation threw
C19_Witness ==
  /\ Served("generateSurface3DData")
  /\ Compiles(req.arg.expression)
  /\ req.arg.resolution = MaxResolution
  /\ evaluations = MaxResolution * MaxResolution
  /\ isFinite(res.z[1][1]) /\ res.colors[1][1] = NaN
  /\ req.arg.expression.fn.base = "const"
  /\ CellResult(req.arg, 1, 2) = Thrown
  /\ res.z[1][2] = NaN /\ res.colors[1][2] = NaN

Ids(list) == [k \in 1..Len(list) |-> list[k].id]
NoSharedId(list) == \A k, n \in 1..Len(list) : k # n => list[k].id # list[n].id

\* C20: whatever addContour, removeContour, updateContour (with the updates
\* the UI issues) and resetToDefaults calls were dispatched, singly or
\* several before one render, no two contours of the rendered plot state
\* have the same id.
C20_ContourIdsDistinct == NoSharedId(contours)

\* contour 2 is displayed, an addContour is pending whose new entry will
\* be numbered 2 as well, and behind it the value of the resetToDefaults
\* that restarted the counter
C20_Witness ==
  /\ Ids(contours) = <<2>>
  /\ contourIdCounter = 1
  /\ Len(queue) = 2
  /\ queue[1].kind = "addContour"
  /\ ~NoSharedId(flush(<<queue[1]>>, [contours |-> contours, counter |-> contourIdCounter]).contours)
  /\ Ids(flush(queue, [contours |-> contours, counter |-> contourIdCounter]).contours) = <<1>>

\* the value of a sum of symbols none of which is bound by a scope
ConstantValue(symbols) == evaluateSymbols(symbols, VariableScope("", Thrown))
SymbolsServed(op) == Served(op) /\ req.arg.expression.fn.base = "symbols"
\* the symbol is among the symbols of the sum
Occurs(symbol, symbols) == \E k \in 1..Len(symbols) : symbols[k] = symbol

\* C21: evaluateAt of an expression in which the variable does not occur
\* returns, for every point bound to the variable and every variable name,
\* what the expression is worth with i, pi and e at their mathjs values (null
\* when it throws); a grid generator evaluating an expression without z
\* fills every cell with the projection of that one value, whatever the
\* cell's z.
C21_UnboundExpressionIgnoresBinding ==
  /\ (Served("evaluateAt") /\ ~Occurs(req.arg.compiled.variable, req.arg.compiled.compiled.symbols))
     => LET worth == ConstantValue(req.arg.compiled.compiled.symbols)
        IN /\ \A p \in Points : evaluateAt(req.arg.compiled, p) = res
           /\ \A v \in VariableNames :
                ~Occurs(v, req.arg.compiled.compiled.symbols)
                => evaluateAt([req.arg.compiled EXCEPT !.variable = v], req.arg.point) = res
           /\ res = IF worth.kind = "throw" THEN Null ELSE NonNull(toComplexPoint(worth).val)
  /\ (SymbolsServed("generateDomainColoringData") /\ ~Occurs("z", req.arg.expression.fn.symbols))
     => LET worth == ConstantValue(req.arg.expression.fn.symbols)
            value == getColorValue(toComplexPoint(worth).val, req.arg.colorBy)
            cell == IF worth.kind # "throw" /\ isFinite(value) THEN value ELSE NaN
        IN \A j, k \in 1..req.arg.resolution : res.z[j][k] = cell

\* evaluateAt with the variable named e returned pi + i for a point that is
\* not finite
C21_Witness ==
  /\ Served("evaluateAt")
  /\ req.arg.compiled.variable = "e"
  /\ req.arg.compiled.compiled.symbols = <<"pi", "i">>
  /\ req.arg.point = ComplexPoint(NaN, PInf)
  /\ res = NonNull(ComplexPoint(Fin(Pi), Fin(Unit)))

\* C26: in a non-null result of computeContourIntegral the sequences
\* tValues, contourPoints, integrandVectors and runningSum have one length
\* n with 1 <= n <= tSteps; their k-th entries are the parameter, the curve
\* point, the integrand and the running sum of the k-th surviving step,
\* the surviving steps ascending; every curve point and integrand is finite.
C26_SequencesAligned ==
  (Served("computeContourIntegral") /\ ~res.isNull)
  => LET n == Len(res.tValues)
         steps == Survivors(req.arg)
     IN /\ 1 <= n /\ n <= req.arg.tSteps
        /\ Len(res.contourPoints) = n
        /\ Len(res.integrandVectors) = n
        /\ Len(res.runningSum) = n
        /\ Len(steps) = n
        /\ \A k \in 1..(n - 1) : steps[k] < steps[k + 1]
        /\ \A k \in 1..n :
             /\ res.tValues[k] = T(req.arg, steps[k])
             /\ res.contourPoints[k] = Gamma(req.arg, T(req.arg, steps[k])).val
             /\ res.integrandVectors[k] = Integrand(req.arg, steps[k])
             /\ res.runningSum[k] = ScaledSumTo(res.integrandVectors, Dt(req.arg), k)
             /\ isFinitePoint(res.contourPoints[k])
             /\ isFinitePoint(res.integrandVectors[k])

\* of three samples the first was skipped: the first entries belong to
\* step 1
C26_Witness ==
  /\ Served("computeContourIntegral")
  /\ ~res.isNull
  /\ req.arg.tSteps = 3
  /\ Survivors(req.arg) = <<1, 2>>
  /\ Len(res.tValues) = 2
  /\ res.tValues[1] = T(req.arg, 1)
  /\ res.tValues[1] # req.arg.tMin

\* every sample of the served contour was accumulated
AllSurvive == IntegralServed /\ ~res.isNull /\ Len(res.tValues) = req.arg.tSteps
\* the curve gamma(t) = t without a transform
StraightCurve == req.arg.expression.fn = Identity /\ isBlank(req.arg.transformFunction.text)

\* C27: when all tSteps >= 2 samples survive, the number of accumulated
\* contributions times dt is tMax - tMin (up to one representable step per
\* contribution), and for the curve gamma(t) = t with integrand 1 the
\* finalValue is tMax - tMin (to the same tolerance).
C27_WeightsSumToInterval ==
  (AllSurvive /\ req.arg.tSteps >= 2)
  => LET length == Sub(req.arg.tMax, req.arg.tMin)
         n == Len(res.tValues)
     IN /\ Near(Mul(Count(n), Dt(req.arg)), length, n)
        /\ StraightCurve => Near(res.finalValue.re, length, n)

\* the steps of the contour whose final value is finite, in order
SurvivingSteps(contour) ==
  LET keep(step) == FiniteFinal(FinalValue(contour, step))
  IN SelectSeq([k \in 1..contour.tSteps |-> k - 1], keep)

\* C25: the parameter value ContourPlot attaches to the k-th point of a
\* ContourData is the parameter at which evaluateSingleContour sampled that
\* point (up to one representable step per sample), also when samples
\* were dropped.
C25_DisplayedParameterIsSampled ==
  (Served("generateContourPoints") /\ ~res.thrown)
  => LET kept == Kept(req.arg.contours)
     IN \A n \in 1..Len(res.val) :
          Sampled(kept[n])
          => LET shown == traceTValues(res.val[n])
                 steps == SurvivingSteps(kept[n])
             IN \A k \in 1..Len(res.val[n].points) :
                  Near(shown[k],
                       Coordinate(kept[n].tMin, kept[n].tMax, kept[n].tSteps, steps[k]),
                       kept[n].tSteps)

\* C23: every contour of the plot state has tMin < tMax, whatever was typed
\* into the t-range inputs.
C23_RangeOrdered ==
  \A k \in 1..Len(contours) : contours[k].tMin.v < contours[k].tMax.v

\* C24: the contour list of the plot state is never empty under the add,
\* reset and remove clicks the UI offers, two remove clicks before one
\* render included.
C24_ListNeverEmpty == contours # <<>>

\* C22: "animate all" and the individual animations are never on together:
\* whenever isAnimatingAll is true, animatingContourIds is empty, for every
\* sequence of handler calls, those handled before one render included.
C22_AnimateAllExcludesIndividual == isAnimatingAll => animatingContourIds = {}

\* C30: the animation and integral-view ids only refer to the contour they
\* were turned on for: a contour that enters the list under an id no
\* displayed contour had is neither in animatingContourIds nor the contour
\* of showingIntegralId.
C30_NewContourStartsIdle ==
  [][\A k \in 1..Len(contours') :
       (\A j \in 1..Len(contours) : contours[j].id # contours'[k].id)
       => /\ contours'[k].id \notin animatingContourIds'
          /\ showingIntegralId' # contours'[k].id]_vars

\* a number that is an index into a list of the length
ValidIndex(x, length) == x.c = "fin" /\ x.v % Unit = 0 /\ 0 <= x.v /\ x.v <= (length - 1) * Unit

\* C28: in every frame of ContourPlot the index the tracer position is read
\* at is an integer in 0..points.length-1, for every contour with a tracer.
C28_TracerIndexValid ==
  (req.op = "generateContourPoints" /\ ~res.thrown /\ picked # NoProgress
     /\ Len(picked) = Len(tracerInfo(res.val)))
  => \A k \in 1..Len(picked) : ValidIndex(picked[k], Len(tracerInfo(res.val)[k].points))

\* C29: the progress of the integral animation stays in [0, 1), so that the
\* index IntegralVisualization derives from it is within 0..n-1.
C29_ProgressInUnitInterval ==
  /\ animationProgress.c = "fin" /\ 0 <= animationProgress.v /\ animationProgress.v < Unit
  /\ integralContour # <<>> /\ ~computeContourIntegral(integralContour[1]).isNull
     => LET n == Len(computeContourIntegral(integralContour[1]).runningSum)
        IN ValidIndex(currentIndex(animationProgress, n), n)

====
